---- MODULE Spec2Model ----
(***************************************************************************)
(* Model of the catalog reconciliation engine of tracker/scrapers.py       *)
(* (class NintendoAmiiboScraper): the staleness gate, ingestion, fuzzy     *)
(* matching, merge, placeholder creation, backfill and persistence.        *)
(*                                                                         *)
(* Strings are TLA+ strings; a character is a string of length 1.          *)
(* Python floats are modelled by exact rationals [n |-> num, d |-> den].   *)
(* A date is "" (absent / None) or a string "YYYY-MM-DD".                  *)
(***************************************************************************)
EXTENDS Integers, Sequences, FiniteSets, TLC

(***************************************************************************)
(* String helpers (Python str operations used by the source).              *)
(***************************************************************************)
CharAt(s, i) == SubSeq(s, i, i)

\* s[i:] for a 1-based i
Drop(s, i) == SubSeq(s, i, Len(s))

\* s.startswith(p)
StartsWith(s, p) == Len(p) <= Len(s) /\ SubSeq(s, 1, Len(p)) = p

\* s.endswith(p)
EndsWith(s, p) == Len(p) <= Len(s) /\ SubSeq(s, Len(s) - Len(p) + 1, Len(s)) = p

\* sub in s
Contains(s, sub) == \E i \in 1..(Len(s) - Len(sub) + 1) : SubSeq(s, i, i + Len(sub) - 1) = sub

\* c in chars, for a one-character string c
CharIn(c, chars) == \E i \in 1..Len(chars) : CharAt(chars, i) = c

UpperChars == "ABCDEFGHIJKLMNOPQRSTUVWXYZ"
LowerChars == "abcdefghijklmnopqrstuvwxyz"
DigitChars == "0123456789"

\* regex class \s (the names of the model hold no other whitespace than the blank)
IsSpace(c) == c = " "

\* regex class \d
IsDigit(c) == CharIn(c, DigitChars)

\* regex class \w
IsWord(c) == CharIn(c, LowerChars) \/ CharIn(c, UpperChars) \/ IsDigit(c) \/ c = "_"

\* str.lower() of one character
LowerChar(c) ==
    IF CharIn(c, UpperChars)
    THEN CharAt(LowerChars, CHOOSE i \in 1..Len(UpperChars) : CharAt(UpperChars, i) = c)
    ELSE c

RECURSIVE Lower(_)
\* str.lower()
Lower(s) == IF s = "" THEN "" ELSE LowerChar(Head(s)) \o Lower(Tail(s))

RECURSIVE LStrip(_)
\* str.lstrip() / a leading \s*
LStrip(s) == IF s # "" /\ IsSpace(Head(s)) THEN LStrip(Tail(s)) ELSE s

RECURSIVE RStrip(_)
\* str.rstrip() / a trailing \s*
RStrip(s) ==
    IF s # "" /\ IsSpace(CharAt(s, Len(s))) THEN RStrip(SubSeq(s, 1, Len(s) - 1)) ELSE s

\* str.strip()
Strip(s) == LStrip(RStrip(s))

\* index of the first occurrence of character c in s at or after position from, 0 if none
IndexFrom(s, c, from) ==
    IF \E i \in from..Len(s) : CharAt(s, i) = c
    THEN CHOOSE i \in from..Len(s) :
            CharAt(s, i) = c /\ \A k \in from..(i - 1) : CharAt(s, k) # c
    ELSE 0

(***************************************************************************)
(* normalize_name                                                          *)
(***************************************************************************)
RECURSIVE SubParens(_)
\* the match of \s*\(.*?\)\s* around the parentheses at open and close
ParensMatch(s, open, close) ==
    IF close = 0 THEN s
    ELSE RStrip(SubSeq(s, 1, open - 1)) \o " " \o SubParens(LStrip(Drop(s, close + 1)))

ParensFrom(s, open) == ParensMatch(s, open, IF open = 0 THEN 0 ELSE IndexFrom(s, ")", open + 1))

\* re.sub(r"\s*\(.*?\)\s*", " ", name): the leftmost match starts at the
\* whitespace run before the first "(" that has a ")" after it, runs lazily
\* to the first ")" and over the whitespace after it; the scan goes on
\* behind the match.
SubParens(s) == ParensFrom(s, IndexFrom(s, "(", 1))

\* t is the name up to the word that ends it: remove the dash before the word
DashBefore(s, t) == IF EndsWith(t, "-") THEN RStrip(SubSeq(t, 1, Len(t) - 1)) ELSE s

\* t is the name without trailing whitespace
SuffixOf(s, t, word) ==
    IF EndsWith(t, word) THEN DashBefore(s, RStrip(SubSeq(t, 1, Len(t) - Len(word)))) ELSE s

\* re.sub(r"\s*-\s*<word>\s*$", "", name)
SubDashSuffix(s, word) == SuffixOf(s, RStrip(s), word)

RECURSIVE SubSpecial(_)
\* re.sub(r"[^\w\s]", "", name)
SubSpecial(s) ==
    IF s = "" THEN ""
    ELSE (IF IsWord(Head(s)) \/ IsSpace(Head(s)) THEN Head(s) ELSE "") \o SubSpecial(Tail(s))

RECURSIVE CollapseSpace(_)
\* re.sub(r"\s+", " ", name)
CollapseSpace(s) ==
    IF s = "" THEN ""
    ELSE IF IsSpace(Head(s)) THEN " " \o CollapseSpace(LStrip(s))
    ELSE Head(s) \o CollapseSpace(Tail(s))

\* the name not lower-cased
normalize_name_cased(name) ==
    Strip(CollapseSpace(SubSpecial(
        SubDashSuffix(SubDashSuffix(SubParens(name), "side order"), "alterna"))))

\* the whitespace collapsed before the special characters are removed
normalize_name_collapse_first(name) ==
    Strip(SubSpecial(CollapseSpace(
        SubDashSuffix(SubDashSuffix(SubParens(Lower(name)), "side order"), "alterna"))))

normalize_name(name) ==
    Strip(CollapseSpace(SubSpecial(
        SubDashSuffix(SubDashSuffix(SubParens(Lower(name)), "side order"), "alterna"))))

(***************************************************************************)
(* Exact rationals standing for the Python floats of the scores.           *)
(***************************************************************************)
RECURSIVE GCD(_, _)
GCD(a, b) == IF b = 0 THEN a ELSE GCD(b, a % b)

\* num/den in lowest terms (den > 0)
Reduced(num, den, g) == [n |-> num \div g, d |-> den \div g]
Rat(num, den) == Reduced(num, den, GCD(num, den))
RatGE(x, y) == x.n * y.d >= y.n * x.d
RatGT(x, y) == x.n * y.d > y.n * x.d
RatEq(x, y) == x.n * y.d = y.n * x.d
RatAdd(x, y) == Rat(x.n * y.d + y.n * x.d, x.d * y.d)
\* min(1.0, x)
RatMin1(x) == IF x.n > x.d THEN Rat(1, 1) ELSE x

(***************************************************************************)
(* difflib.SequenceMatcher(None, a, b).ratio() (no junk: autojunk needs    *)
(* 200 characters)                                                         *)
(***************************************************************************)
RECURSIVE CommonLen(_, _, _, _, _, _)
\* length of the common run of a[i..ahi] and b[j..bhi]
CommonLen(a, b, i, ahi, j, bhi) ==
    IF i > ahi \/ j > bhi \/ CharAt(a, i) # CharAt(b, j) THEN 0
    ELSE 1 + CommonLen(a, b, i + 1, ahi, j + 1, bhi)

\* whether the block of length kp at p is found before the block of length kq at q:
\* the longest, then the earliest in a, then the earliest in b
BlockBefore(kp, kq, p, q) ==
    \/ kp > kq
    \/ kp = kq /\ p[1] < q[1]
    \/ kp = kq /\ p[1] = q[1] /\ p[2] <= q[2]

BlockAt(a, b, ahi, bhi, p) == <<p[1], p[2], CommonLen(a, b, p[1], ahi, p[2], bhi)>>

\* find_longest_match: <<i, j, k>>
find_longest_match(a, b, alo, ahi, blo, bhi) ==
    IF alo > ahi \/ blo > bhi THEN <<alo, blo, 0>>
    ELSE BlockAt(a, b, ahi, bhi,
                 CHOOSE p \in (alo..ahi) \X (blo..bhi) :
                    \A q \in (alo..ahi) \X (blo..bhi) :
                        BlockBefore(CommonLen(a, b, p[1], ahi, p[2], bhi),
                                    CommonLen(a, b, q[1], ahi, q[2], bhi), p, q))

RECURSIVE MatchedChars(_, _, _, _, _, _)
\* the block m = <<i, j, k>> and the blocks left and right of it
BlocksAround(a, b, alo, ahi, blo, bhi, m) ==
    IF m[3] = 0 THEN 0
    ELSE m[3]
         + (IF alo < m[1] /\ blo < m[2]
            THEN MatchedChars(a, b, alo, m[1] - 1, blo, m[2] - 1) ELSE 0)
         + (IF m[1] + m[3] <= ahi /\ m[2] + m[3] <= bhi
            THEN MatchedChars(a, b, m[1] + m[3], ahi, m[2] + m[3], bhi) ELSE 0)

\* get_matching_blocks: the sum of the sizes of the matching blocks
MatchedChars(a, b, alo, ahi, blo, bhi) ==
    BlocksAround(a, b, alo, ahi, blo, bhi, find_longest_match(a, b, alo, ahi, blo, bhi))

\* ratio() = 2.0 * matches / (len(a) + len(b))
SequenceRatio(a, b) ==
    IF Len(a) + Len(b) = 0 THEN Rat(1, 1)
    ELSE Rat(2 * MatchedChars(a, b, 1, Len(a), 1, Len(b)), Len(a) + Len(b))

\* the first word of a string with no leading blank, whose first blank is at sp
RECURSIVE SplitWords(_)
WordsFrom(t, sp) ==
    IF t = "" THEN {}
    ELSE IF sp = 0 THEN {t}
    ELSE {SubSeq(t, 1, sp - 1)} \cup SplitWords(Drop(t, sp))

FirstWordOn(t) == WordsFrom(t, IndexFrom(t, " ", 1))

\* set(name.split())
SplitWords(s) == FirstWordOn(LStrip(s))

\* len(intersection) / len(union), 0 where a set of words is empty
word_score(words1, words2) ==
    IF words1 # {} /\ words2 # {}
    THEN Rat(Cardinality(words1 \cap words2), Cardinality(words1 \cup words2))
    ELSE Rat(0, 1)

\* no bonus for a substring
substring_bonus_none(name1, name2) == Rat(0, 1)

\* 0.1 if name1 in name2 or name2 in name1
substring_bonus(name1, name2) ==
    IF Contains(name2, name1) \/ Contains(name1, name2) THEN Rat(1, 10) ELSE Rat(0, 1)

\* (sequence_score * 0.6) + (word_score * 0.4) + substring_bonus
weighted(sequence_score, wscore, bonus) ==
    RatAdd(RatAdd(Rat(6 * sequence_score.n, 10 * sequence_score.d),
                  Rat(4 * wscore.n, 10 * wscore.d)),
           bonus)

(***************************************************************************)
(* calculate_similarity                                                    *)
(***************************************************************************)
calculate_similarity(name1, name2) ==
    IF name1 = "" \/ name2 = "" THEN Rat(0, 1)
    ELSE RatMin1(weighted(SequenceRatio(name1, name2),
                          word_score(SplitWords(name1), SplitWords(name2)),
                          substring_bonus(name1, name2)))

(***************************************************************************)
(* Python dicts are functions from keys to values (records whose domain    *)
(* may vary); None is modelled by the empty string (both are falsy and the *)
(* source only tests them for truth).                                      *)
(***************************************************************************)
\* d.get(k, default)
Get(d, k, default) == IF k \in DOMAIN d THEN d[k] ELSE default

\* d[k] = v
Put(d, k, v) == (k :> v) @@ d

EmptyDict == <<>>

\* amiibo.get("release", {}).get("na")
NaDate(amiibo) == Get(Get(amiibo, "release", EmptyDict), "na", "")

(***************************************************************************)
(* datetime.strptime(date, "%Y-%m-%d"): the day ordinal of a valid date,   *)
(* -1 where strptime raises ValueError.                                    *)
(***************************************************************************)
RECURSIVE ParseInt(_)
\* int(s) for a string of digits
ParseInt(s) ==
    IF s = "" THEN 0
    ELSE 10 * ParseInt(SubSeq(s, 1, Len(s) - 1))
         + ((CHOOSE i \in 1..10 : CharAt(DigitChars, i) = CharAt(s, Len(s))) - 1)

AllDigits(s) == s # "" /\ \A i \in 1..Len(s) : IsDigit(CharAt(s, i))

IsLeap(y) == (y % 4 = 0 /\ y % 100 # 0) \/ y % 400 = 0

DaysInMonth(y, m) ==
    IF m = 2 THEN (IF IsLeap(y) THEN 29 ELSE 28)
    ELSE IF m \in {4, 6, 9, 11} THEN 30 ELSE 31

RECURSIVE DaysBeforeMonth(_, _)
DaysBeforeMonth(y, m) == IF m = 1 THEN 0 ELSE DaysBeforeMonth(y, m - 1) + DaysInMonth(y, m - 1)

\* date.toordinal()
ToOrdinal(y, m, d) ==
    365 * (y - 1) + ((y - 1) \div 4) - ((y - 1) \div 100) + ((y - 1) \div 400)
    + DaysBeforeMonth(y, m) + d

\* the ordinal of year y, month m, day d, -1 for no date of the calendar
CheckedOrdinal(y, m, d) ==
    IF y < 1 \/ m < 1 \/ m > 12 THEN -1
    ELSE IF d < 1 \/ d > DaysInMonth(y, m) THEN -1
    ELSE ToOrdinal(y, m, d)

\* the fields %Y, %m and %d
ParsedFields(ys, ms, ds) ==
    IF ~(AllDigits(ys) /\ AllDigits(ms) /\ AllDigits(ds)) THEN -1
    ELSE IF Len(ys) # 4 \/ Len(ms) > 2 \/ Len(ds) > 2 THEN -1
    ELSE CheckedOrdinal(ParseInt(ys), ParseInt(ms), ParseInt(ds))

\* the date split at its dashes, at positions d1 and d2
SplitDate(date, d1, d2) ==
    IF d1 = 0 \/ d2 = 0 THEN -1
    ELSE ParsedFields(SubSeq(date, 1, d1 - 1), SubSeq(date, d1 + 1, d2 - 1), Drop(date, d2 + 1))

SecondDash(date, d1) == SplitDate(date, d1, IF d1 = 0 THEN 0 ELSE IndexFrom(date, "-", d1 + 1))

strptime(date) == SecondDash(date, IndexFrom(date, "-", 1))

days_threshold == 30

\* the comparison days_apart < days_threshold
CloseOrdinals_strict(d1, d2) ==
    d1 # -1 /\ d2 # -1 /\ (IF d1 >= d2 THEN d1 - d2 ELSE d2 - d1) < days_threshold

\* dates_are_close(date1, date2): False where strptime raises
CloseOrdinals(d1, d2) ==
    d1 # -1 /\ d2 # -1 /\ (IF d1 >= d2 THEN d1 - d2 ELSE d2 - d1) <= days_threshold

dates_are_close(date1, date2) == CloseOrdinals(strptime(date1), strptime(date2))

(***************************************************************************)
(* The names and dates of the model, and the values of normalize_name,     *)
(* calculate_similarity and dates_are_close on them, computed once.        *)
(***************************************************************************)
ModelNames ==
    { "", "Mario", "Luigi", "Dr. Mario", "Mario Jr.", "???", "Link", "Mario 3-Pack", "LINK" }

\* "TBA" stands for an NA date of the file that is no date
ModelDates ==
    { "2014-11-21", "2014-11-28", "2014-12-05", "2014-12-21", "2014-12-22",
      "2015-03-12", "2015-03-20", "2015-03-21", "TBA" }

normalized == [name \in ModelNames |-> normalize_name(name)]

NormalizedNames == { normalized[name] : name \in ModelNames }

similarity ==
    [p \in NormalizedNames \X NormalizedNames |-> calculate_similarity(p[1], p[2])]

close_dates == [p \in ModelDates \X ModelDates |-> dates_are_close(p[1], p[2])]

(***************************************************************************)
(* is_set_or_bundle                                                        *)
(***************************************************************************)
set_indicators ==
    { "starter set", "card set", "pack", "bundle", "collection", "power-up band",
      "power up band", "cards - series", "card series", "amiibo cards series",
      "triple pack", "3-pack", "3 pack", "multi-pack", "multipack", "double pack",
      "2-pack", "2 pack" }

RECURSIVE RStripDigits(_)
RStripDigits(s) ==
    IF s # "" /\ IsDigit(CharAt(s, Len(s))) THEN RStripDigits(SubSeq(s, 1, Len(s) - 1)) ELSE s

\* re.search(r"series\s+\d+$", name_lower)
EndsWithSeriesN(s) ==
    LET t == RStripDigits(s)
        u == RStrip(t)
    IN  Len(t) < Len(s) /\ Len(u) < Len(t) /\ EndsWith(u, "series")

is_set_or_bundle(name) ==
    LET name_lower == Lower(name)
    IN  \/ \E indicator \in set_indicators : Contains(name_lower, indicator)
        \/ EndsWithSeriesN(name_lower)

(***************************************************************************)
(* scrape_nintendo_amiibos, behind the page fetch and the field            *)
(* extraction: a link is its aria-label (name) and the series, release     *)
(* date and image read from it.                                            *)
(***************************************************************************)
\* every link taken, sets and bundles too
scrape_every_link(links) ==
    [i \in 1..Len(links) |->
        [name |-> Strip(links[i].name), series |-> links[i].series,
         release_date |-> links[i].release_date, image |-> links[i].image]]

RECURSIVE scrape_nintendo_amiibos(_)
scrape_nintendo_amiibos(links) ==
    IF links = <<>> THEN <<>>
    ELSE LET link == Head(links)
             name == Strip(link.name)
         IN  IF name = "" \/ is_set_or_bundle(name)
             THEN scrape_nintendo_amiibos(Tail(links))
             ELSE <<[name |-> name, series |-> link.series,
                     release_date |-> link.release_date, image |-> link.image]>>
                  \o scrape_nintendo_amiibos(Tail(links))

(***************************************************************************)
(* find_best_match                                                         *)
(***************************************************************************)
\* __init__(min_similarity=0.6)
min_similarity == Rat(6, 10)

\* the date boost for a scraped date and the NA date of a catalog entry
date_boost(scraped_date, existing_na_date) ==
    IF scraped_date = "" THEN Rat(0, 1)
    ELSE IF existing_na_date # "" /\ existing_na_date = scraped_date THEN Rat(3, 10)
    ELSE IF existing_na_date # "" /\ close_dates[<<scraped_date, existing_na_date>>]
         THEN Rat(15, 100)
    ELSE Rat(0, 1)

\* final_score of the scraped amiibo against one catalog entry:
\* min(1.0, name_score + date_boost)
final_score(scraped_amiibo, amiibo) ==
    RatMin1(RatAdd(similarity[<<normalized[scraped_amiibo.name],
                                normalized[Get(amiibo, "name", "")]>>],
                   date_boost(scraped_amiibo.release_date, NaDate(amiibo))))

\* the comparison without the threshold: if final_score > best_score
better_match_any(prev, i, score, threshold) ==
    IF RatGT(score, prev[2]) THEN <<i, score>> ELSE prev

\* if final_score > best_score and final_score >= self.min_similarity
better_match(prev, i, score, threshold) ==
    IF RatGT(score, prev[2]) /\ RatGE(score, threshold) THEN <<i, score>> ELSE prev

\* the running best after iteration i of the loop: <<best_match, best_score>>,
\* best_match an index into existing_amiibos, 0 for None
RECURSIVE best_upto(_, _, _, _)
best_upto(scraped_amiibo, existing_amiibos, i, threshold) ==
    IF i = 0 THEN <<0, Rat(0, 1)>>
    ELSE better_match(best_upto(scraped_amiibo, existing_amiibos, i - 1, threshold), i,
                      final_score(scraped_amiibo, existing_amiibos[i]), threshold)

\* the index of the best match in existing_amiibos, 0 for None
find_best_match(scraped_amiibo, existing_amiibos) ==
    best_upto(scraped_amiibo, existing_amiibos, Len(existing_amiibos), min_similarity)[1]

(***************************************************************************)
(* update_amiibo: <<the entry afterwards, updated>>                        *)
(***************************************************************************)
\* the update without the test of the date the entry holds
update_amiibo_overwrite(existing_amiibo, scraped_data) ==
    IF scraped_data.release_date # ""
    THEN <<Put(existing_amiibo, "release",
               Put(Get(existing_amiibo, "release", EmptyDict), "na", scraped_data.release_date)),
           TRUE>>
    ELSE <<existing_amiibo, FALSE>>

\* the update that writes a fresh release dict: existing_amiibo["release"] = {"na": date}
update_amiibo_fresh_release(existing_amiibo, scraped_data) ==
    IF scraped_data.release_date # "" /\ NaDate(existing_amiibo) = ""
    THEN <<Put(existing_amiibo, "release", Put(EmptyDict, "na", scraped_data.release_date)),
           TRUE>>
    ELSE <<existing_amiibo, FALSE>>

update_amiibo(existing_amiibo, scraped_data) ==
    IF scraped_data.release_date # "" /\ NaDate(existing_amiibo) = ""
    THEN LET release == IF DOMAIN Get(existing_amiibo, "release", EmptyDict) = {}
                        THEN EmptyDict
                        ELSE existing_amiibo.release
         IN  <<Put(existing_amiibo, "release", Put(release, "na", scraped_data.release_date)),
               TRUE>>
    ELSE <<existing_amiibo, FALSE>>

(***************************************************************************)
(* create_placeholder_amiibo                                               *)
(***************************************************************************)
\* hashlib.sha256(name.encode()).hexdigest() on the names of the model
sha256_hexdigest(name) ==
    CASE name = "Mario" -> "61c8e16ad90d4e6da317180fa445e262e9313bbf21fd4d30b3b9b4425886b2f5"
      [] name = "Luigi" -> "3ea09ea5151da1af357cb4d9178586049e7edc2a26c17239b238571ea47b0d31"
      [] name = "Dr. Mario" -> "ad98d2bd70fe6ca247f0cb866ccf6f99573604319fcd77391e3bf82fadcab416"
      [] name = "Mario Jr." -> "e37d45bb87d96149f995ea753005a5f5d5eb970269b40cc991bc8fd8cd9c53bb"
      [] name = "???" -> "a03b221c6c6eae7122ca51695d456d5222e524889136394944b2f9763b483615"
      [] name = "Link" -> "a6a32dbc5618ea39f6df5b0f9808e3588b19e00d5f6f96c69492e40386e5aeab"
      [] name = "LINK" -> "e26ef19029cc92e234d9457823ca0811b92db9ce9dbf8db99c0fdd75d11338f0"
      [] name = "Mario 3-Pack" -> "78bcfbdbe1858e807d2512193c861a27bfb5ae8b73ff017a51f046deb13e6a87"

\* the placeholder with the unknown sentinel for head and tail
create_placeholder_sentinel(scraped_data) ==
    [ amiiboSeries |-> scraped_data.series,
      character |-> scraped_data.name,
      gameSeries |-> scraped_data.series,
      head |-> "00000000",
      image |-> scraped_data.image,
      name |-> scraped_data.name,
      release |-> IF scraped_data.release_date # ""
                  THEN Put(EmptyDict, "na", scraped_data.release_date)
                  ELSE EmptyDict,
      tail |-> "00000000",
      type |-> "Figure",
      is_upcoming |-> TRUE ]

create_placeholder_amiibo(scraped_data) ==
    LET release_date == scraped_data.release_date
        name_hash == sha256_hexdigest(scraped_data.name)
        unique_head == "ff" \o SubSeq(name_hash, 1, 6)
        unique_tail == "ff" \o SubSeq(name_hash, 7, 12)
    IN  [ amiiboSeries |-> scraped_data.series,
          character |-> scraped_data.name,
          gameSeries |-> scraped_data.series,
          head |-> unique_head,
          image |-> scraped_data.image,
          name |-> scraped_data.name,
          release |-> IF release_date # "" THEN Put(EmptyDict, "na", release_date)
                      ELSE EmptyDict,
          tail |-> unique_tail,
          type |-> "Figure",
          is_upcoming |-> TRUE ]

(***************************************************************************)
(* find_amiiboapi_match: the index of the best match in api_amiibos, 0 for *)
(* None, -1 where placeholder["name"] raises KeyError                      *)
(***************************************************************************)
api_threshold == Rat(7, 10)

\* if score > best_score and score >= 0.7
better_api_match(prev, i, score) ==
    IF RatGT(score, prev[2]) /\ RatGE(score, api_threshold) THEN <<i, score>> ELSE prev

RECURSIVE api_best_upto(_, _, _)
api_best_upto(placeholder_name, api_amiibos, i) ==
    IF i = 0 THEN <<0, Rat(0, 1)>>
    ELSE better_api_match(api_best_upto(placeholder_name, api_amiibos, i - 1), i,
                          similarity[<<placeholder_name,
                                       normalized[Get(api_amiibos[i], "name", "")]>>])

find_amiiboapi_match(placeholder, api_amiibos) ==
    IF "name" \notin DOMAIN placeholder THEN -1
    ELSE api_best_upto(normalized[placeholder.name], api_amiibos, Len(api_amiibos))[1]

(***************************************************************************)
(* backfill_amiibo_data: [entry |-> the placeholder afterwards,            *)
(* raised |-> whether a KeyError ended it]. The default of each            *)
(* api_amiibo.get(key, placeholder[key]) is evaluated before the call, so  *)
(* a placeholder without the key raises after head and tail were set.      *)
(***************************************************************************)
Regions == <<"jp", "eu", "au">>

RECURSIVE merge_regions(_, _, _)
\* for region in ["jp", "eu", "au"]: fill the regions the placeholder lacks
merge_regions(release, api_release, i) ==
    IF i > Len(Regions) THEN release
    ELSE LET region == Regions[i]
             r1 == IF region \in DOMAIN api_release /\ region \notin DOMAIN release
                   THEN Put(release, region, api_release[region])
                   ELSE release
         IN  merge_regions(r1, api_release, i + 1)

\* the NA date of the API taken whatever the placeholder holds
fill_na_always(release, api_release) ==
    IF "na" \in DOMAIN api_release THEN Put(release, "na", api_release["na"]) ELSE release

\* if "na" in api_release and not placeholder["release"].get("na")
fill_na(release, api_release) ==
    IF "na" \in DOMAIN api_release /\ Get(release, "na", "") = ""
    THEN Put(release, "na", api_release["na"])
    ELSE release

\* if api_release: merge the release dates
bf_release(p, api_release) ==
    IF DOMAIN api_release = {} THEN p
    ELSE Put(p, "release",
             fill_na(merge_regions(Get(p, "release", EmptyDict), api_release, 1), api_release))

\* placeholder["image"], placeholder["type"], then the release dates
bf_image_type(p, api_amiibo) ==
    [ entry |-> bf_release(Put(Put(p, "image", Get(api_amiibo, "image", "")),
                               "type", Get(api_amiibo, "type", Get(p, "type", "Figure"))),
                           Get(api_amiibo, "release", EmptyDict)),
      raised |-> FALSE ]

\* placeholder["amiiboSeries"] = api_amiibo.get("amiiboSeries", placeholder["amiiboSeries"])
bf_amiiboSeries(p, api_amiibo) ==
    IF "amiiboSeries" \notin DOMAIN p THEN [entry |-> p, raised |-> TRUE]
    ELSE bf_image_type(Put(p, "amiiboSeries", Get(api_amiibo, "amiiboSeries", p.amiiboSeries)),
                       api_amiibo)

\* placeholder["gameSeries"] = api_amiibo.get("gameSeries", placeholder["gameSeries"])
bf_gameSeries(p, api_amiibo) ==
    IF "gameSeries" \notin DOMAIN p THEN [entry |-> p, raised |-> TRUE]
    ELSE bf_amiiboSeries(Put(p, "gameSeries", Get(api_amiibo, "gameSeries", p.gameSeries)),
                         api_amiibo)

\* placeholder["character"] = api_amiibo.get("character", placeholder["character"])
bf_character(p, api_amiibo) ==
    IF "character" \notin DOMAIN p THEN [entry |-> p, raised |-> TRUE]
    ELSE bf_gameSeries(Put(p, "character", Get(api_amiibo, "character", p.character)),
                       api_amiibo)

backfill_amiibo_data(placeholder, api_amiibo) ==
    bf_character(Put(Put(placeholder, "head", Get(api_amiibo, "head", "00000000")),
                     "tail", Get(api_amiibo, "tail", "00000000")),
                 api_amiibo)

(***************************************************************************)
(* The data of the model: catalog entries, the links of the lineup page    *)
(* and the answers of AmiiboAPI.                                           *)
(***************************************************************************)
MarioEntry ==
    [ amiiboSeries |-> "Super Smash Bros.", character |-> "Mario",
      gameSeries |-> "Super Mario", head |-> "00000000", image |-> "mario.png",
      name |-> "Mario", release |-> [eu |-> "2014-11-28"], tail |-> "00000002",
      type |-> "Figure" ]

LinkEntry ==
    [ amiiboSeries |-> "Super Smash Bros.", character |-> "Link",
      gameSeries |-> "The Legend of Zelda", head |-> "01010000", image |-> "link.png",
      name |-> "Link", release |-> [na |-> "2014-11-21"], tail |-> "00000002",
      type |-> "Figure" ]

\* an upcoming entry written by hand, without the keys the scraper writes
TeaserEntry ==
    [ head |-> "ff000001", image |-> "", name |-> "Luigi", release |-> EmptyDict,
      tail |-> "ff000002", type |-> "Figure", is_upcoming |-> TRUE ]

\* the catalogs amiibo_database.json may hold at the start; <<>> is also
\* what load_existing_amiibos returns for a missing file
InitialCatalogs ==
    { <<>>, <<MarioEntry>>, <<MarioEntry, LinkEntry>>, <<LinkEntry, TeaserEntry>> }

LineupLinks ==
    { [name |-> "Mario", series |-> "Super Mario", release_date |-> "2014-11-21",
       image |-> "n-mario.png"],
      [name |-> "Dr. Mario", series |-> "Super Smash Bros.", release_date |-> "2014-12-05",
       image |-> "n-drmario.png"],
      [name |-> "Mario Jr.", series |-> "Super Mario", release_date |-> "",
       image |-> "n-jr.png"],
      [name |-> "???", series |-> "", release_date |-> "", image |-> ""],
      [name |-> "Link", series |-> "The Legend of Zelda", release_date |-> "2014-11-28",
       image |-> "n-link.png"],
      [name |-> "Mario 3-Pack", series |-> "Super Mario", release_date |-> "2014-11-21",
       image |-> ""] }

\* the number of links on the lineup page
MaxLinks == 2

\* the pages of at most MaxLinks distinct links
LineupPages ==
    UNION { { p \in [1..n -> LineupLinks] : \A i, j \in 1..n : i # j => p[i] # p[j] }
            : n \in 0..MaxLinks }

ApiMario ==
    [ amiiboSeries |-> "Super Mario Bros.", character |-> "Mario",
      gameSeries |-> "Super Mario", head |-> "00000000", image |-> "api-mario.png",
      name |-> "Mario", tail |-> "00340102", type |-> "Figure",
      release |-> [au |-> "2015-03-21", eu |-> "2015-03-20", jp |-> "2015-03-12",
                   na |-> "2015-03-20"] ]

ApiLuigi ==
    [ amiiboSeries |-> "Super Mario Bros.", character |-> "Luigi",
      gameSeries |-> "Super Mario", head |-> "00010000", image |-> "api-luigi.png",
      name |-> "Luigi", tail |-> "00350102", type |-> "Figure",
      release |-> [eu |-> "2015-03-20", na |-> "2015-03-20"] ]

\* what requests.get / response.json() give for https://amiiboapi.org/api/amiibo/
ApiResponses ==
    { [kind |-> "request_error", amiibo |-> <<>>],
      [kind |-> "unparsable", amiibo |-> <<>>],
      [kind |-> "ok", amiibo |-> <<>>],
      [kind |-> "ok", amiibo |-> <<ApiLuigi, ApiMario>>] }

\* the number of runs of one behaviour
MaxRuns == 2

\* __init__(cache_hours=...), in hours; the age of the file is counted up to it
cache_hours == 1

(***************************************************************************)
(* State                                                                   *)
(***************************************************************************)
VARIABLES
    database,          \* the "amiibo" list of amiibo_database.json
    db_exists,         \* database_path.exists()
    db_age,            \* hours since the file was last written
    site,              \* the links of the lineup page
    pc,                \* the position of run()
    force,             \* run(force)
    scraped_amiibos,   \* run: scraped_amiibos
    existing_amiibos,  \* run: existing_amiibos (the working catalog)
    idx,               \* run: the position of the for loop in scraped_amiibos
    match,             \* run: the index of match in existing_amiibos, 0 for None
    matched_count,     \* run: matched_count
    new_count,         \* run: new_count
    updated_amiibos,   \* run: updated_amiibos (the names)
    backfilled_count,  \* run: backfilled_count
    api_amiibos,       \* backfill_from_amiiboapi: api_amiibos
    needs_backfill,    \* backfill_from_amiiboapi: needs_backfill (indices into existing_amiibos)
    bf_idx,            \* backfill_from_amiiboapi: the position of the loop in needs_backfill
    bf_count,          \* backfill_from_amiiboapi: its local backfilled_count
    result,            \* what the last run() returned
    runs,              \* the number of runs started
    hist,              \* what the current run has done so far (for the properties)
    fn,                \* the method called on its own, "none" before any call
    args,              \* its arguments
    out,               \* what it returned
    cur,               \* which of the two processes calling run() is scheduled, 1 or 2
    other              \* the position and the locals of run() in the process that is not

vars ==
    << database, db_exists, db_age, site, pc, force, scraped_amiibos, existing_amiibos,
       idx, match, matched_count, new_count, updated_amiibos, backfilled_count,
       api_amiibos, needs_backfill, bf_idx, bf_count, result, runs, hist, fn, args, out,
       cur, other >>

runVars ==
    << scraped_amiibos, existing_amiibos, idx, match, matched_count, new_count,
       updated_amiibos, backfilled_count >>

bfVars == << api_amiibos, needs_backfill, bf_idx, bf_count >>

fileVars == << database, db_exists, db_age >>

fnVars == << fn, args, out >>

procVars == << cur, other >>

\* no method is called on its own
FnIdle == fn = "none" /\ args = <<>> /\ out = <<>>

NoResult == [status |-> "none"]

\* the record of a run that has just been called
NewHist(f, sr, prev) ==
    [ force |-> f,                \* the force argument
      should_run |-> sr,          \* what should_run() returned (TRUE where not called)
      prev_status |-> prev,       \* the status of the run before
      db_at_start |-> database,   \* the file when run was called
      exists_at_start |-> db_exists,
      ingest |-> "none",          \* "ok", "empty", "request_error", "raised"
      scrape_calls |-> 0,
      load_calls |-> 0,
      save_calls |-> 0,
      backfill |-> "none",        \* "ok", or how the backfill stage failed
      loaded |-> <<>>,            \* what load_existing_amiibos returned
      before |-> EmptyDict,       \* the match of the last listing, before update_amiibo
      reported |-> FALSE,         \* what update_amiibo returned for it
      pre_backfill |-> <<>>,      \* existing_amiibos when the backfill stage began
      promoted |-> {} ]           \* the indices backfill_amiibo_data completed on

\* run() as a process holds it: its position, its argument, its locals, its result
RunOf(p, f, sc, ex, i, m, mc, nc, up, bc, api, nb, bi, bfc, res, h) ==
    [ pc |-> p, force |-> f, scraped_amiibos |-> sc, existing_amiibos |-> ex, idx |-> i,
      match |-> m, matched_count |-> mc, new_count |-> nc, updated_amiibos |-> up,
      backfilled_count |-> bc, api_amiibos |-> api, needs_backfill |-> nb, bf_idx |-> bi,
      bf_count |-> bfc, result |-> res, hist |-> h ]

\* a process that has not called run
IdleRun ==
    RunOf("idle", FALSE, <<>>, <<>>, 0, 0, 0, 0, <<>>, 0, <<>>, <<>>, 0, 0, NoResult,
          [NewHist(FALSE, TRUE, "none") EXCEPT !.db_at_start = <<>>, !.exists_at_start = FALSE])

\* one process only
Alone == cur = 1 /\ other = IdleRun

\* no run has been called
RunIdle ==
    /\ db_age = 0
    /\ pc = "idle"
    /\ force = FALSE
    /\ scraped_amiibos = <<>>
    /\ existing_amiibos = <<>>
    /\ idx = 0
    /\ match = 0
    /\ matched_count = 0
    /\ new_count = 0
    /\ updated_amiibos = <<>>
    /\ backfilled_count = 0
    /\ api_amiibos = <<>>
    /\ needs_backfill = <<>>
    /\ bf_idx = 0
    /\ bf_count = 0
    /\ result = NoResult
    /\ runs = 0
    /\ hist = [NewHist(FALSE, TRUE, "none") EXCEPT !.db_at_start = <<>>, !.exists_at_start = FALSE]

Init ==
    /\ database \in InitialCatalogs
    /\ db_exists \in BOOLEAN
    /\ (~db_exists => database = <<>>)
    /\ site \in LineupPages
    /\ RunIdle
    /\ FnIdle
    /\ Alone

(***************************************************************************)
(* should_run                                                              *)
(***************************************************************************)
\* should_run with the strict comparison: age_hours > self.cache_hours
should_run_strict(stat_ok) ==
    IF ~db_exists THEN TRUE
    ELSE IF stat_ok THEN db_age > cache_hours
    ELSE TRUE

\* stat_ok: whether database_path.stat() succeeds
should_run(stat_ok) ==
    IF ~db_exists THEN TRUE
    ELSE IF stat_ok THEN db_age >= cache_hours
    ELSE TRUE

\* time passes between two runs
Tick ==
    /\ pc = "idle"
    /\ UNCHANGED << fnVars, procVars >>
    /\ db_exists
    /\ db_age < cache_hours
    /\ db_age' = db_age + 1
    /\ UNCHANGED << database, db_exists, site, pc, force, runVars, bfVars, result, runs, hist >>

(***************************************************************************)
(* run(force), one action per step of it                                   *)
(***************************************************************************)
\* the gate without the force argument: if not self.should_run()
gate_ignores_force(f, sr) == ~sr

\* if not force and not self.should_run(): sr is what should_run gives
gate_skips(f, sr) == ~f /\ ~sr

\* the call and the staleness gate
RunStart ==
    /\ pc = "idle"
    /\ UNCHANGED << fnVars, procVars >>
    /\ runs < MaxRuns
    /\ \E f \in BOOLEAN, stat_ok \in BOOLEAN :
         LET sr == should_run(stat_ok)
         IN  /\ force' = f
             /\ runs' = runs + 1
             /\ hist' = NewHist(f, sr, result.status)
             /\ IF gate_skips(f, sr)
                THEN /\ result' = [status |-> "skipped", reason |-> "cache_valid"]
                     /\ pc' = "idle"
                ELSE /\ result' = [status |-> "running"]
                     /\ pc' = "scrape"
    /\ scraped_amiibos' = <<>>
    /\ existing_amiibos' = <<>>
    /\ idx' = 0
    /\ match' = 0
    /\ matched_count' = 0
    /\ new_count' = 0
    /\ updated_amiibos' = <<>>
    /\ backfilled_count' = 0
    /\ api_amiibos' = <<>>
    /\ needs_backfill' = <<>>
    /\ bf_idx' = 0
    /\ bf_count' = 0
    /\ UNCHANGED << fileVars, site >>

\* run without the test of the listing: an empty one goes on to the load
scrape_returned_unchecked(listing, ingest) ==
    /\ hist' = [hist EXCEPT !.ingest = IF listing = <<>> /\ ingest = "ok" THEN "empty" ELSE ingest,
                            !.scrape_calls = @ + 1]
    /\ scraped_amiibos' = listing
    /\ pc' = "load"
    /\ UNCHANGED result

\* what run does with the listing scrape_nintendo_amiibos returned:
\* if not scraped_amiibos: return the error
scrape_returned(listing, ingest) ==
    /\ hist' = [hist EXCEPT !.ingest = IF listing = <<>> /\ ingest = "ok" THEN "empty" ELSE ingest,
                            !.scrape_calls = @ + 1]
    /\ IF listing = <<>>
       THEN /\ result' = [status |-> "error", message |-> "No amiibos scraped"]
            /\ pc' = "idle"
            /\ UNCHANGED scraped_amiibos
       ELSE /\ scraped_amiibos' = listing
            /\ pc' = "load"
            /\ UNCHANGED result

\* an exception left scrape_nintendo_amiibos: the except clause of run
scrape_raised ==
    /\ hist' = [hist EXCEPT !.ingest = "raised", !.scrape_calls = @ + 1]
    /\ result' = [status |-> "error", message |-> "Scraping failed"]
    /\ pc' = "idle"
    /\ UNCHANGED scraped_amiibos

\* scraped_amiibos = self.scrape_nintendo_amiibos(): the page is read, the request
\* fails (scrape_nintendo_amiibos returns []) or another exception leaves it
Scrape ==
    /\ pc = "scrape"
    /\ UNCHANGED << fnVars, procVars >>
    /\ \E outcome \in {"ok", "request_error", "raised"} :
         IF outcome = "raised" THEN scrape_raised
         ELSE IF outcome = "request_error" THEN scrape_returned(<<>>, outcome)
         ELSE scrape_returned(scrape_nintendo_amiibos(site), outcome)
    /\ UNCHANGED << fileVars, site, force, existing_amiibos, idx, match, matched_count,
                    new_count, updated_amiibos, backfilled_count, bfVars, runs >>

\* load_existing_amiibos(): [] for a missing file
load_existing_amiibos == IF db_exists THEN database ELSE <<>>

\* existing_amiibos = self.load_existing_amiibos()
Load ==
    /\ pc = "load"
    /\ UNCHANGED << fnVars, procVars >>
    /\ existing_amiibos' = load_existing_amiibos
    /\ idx' = 1
    /\ pc' = IF scraped_amiibos = <<>> THEN "save" ELSE "match"
    /\ hist' = [hist EXCEPT !.load_calls = @ + 1, !.loaded = load_existing_amiibos]
    /\ UNCHANGED << fileVars, site, force, scraped_amiibos, match, matched_count, new_count,
                    updated_amiibos, backfilled_count, bfVars, result, runs >>

\* the loop with the backfill stage behind it whatever new_count is
loop_next_always_backfill(existing1, new1, before, reported) ==
    /\ existing_amiibos' = existing1
    /\ new_count' = new1
    /\ idx' = idx + 1
    /\ pc' = IF idx < Len(scraped_amiibos) THEN "match" ELSE "backfill"
    /\ hist' = IF idx = Len(scraped_amiibos)
               THEN [hist EXCEPT !.before = before, !.reported = reported,
                                 !.pre_backfill = existing1]
               ELSE [hist EXCEPT !.before = before, !.reported = reported]

\* the end of one iteration of the loop, with the working catalog and new_count it
\* leaves; behind the last one, if new_count > 0 the backfill stage begins
loop_next(existing1, new1, before, reported) ==
    /\ existing_amiibos' = existing1
    /\ new_count' = new1
    /\ idx' = idx + 1
    /\ pc' = IF idx < Len(scraped_amiibos) THEN "match"
             ELSE IF new1 > 0 THEN "backfill" ELSE "save"
    /\ hist' = IF idx = Len(scraped_amiibos) /\ new1 > 0
               THEN [hist EXCEPT !.before = before, !.reported = reported,
                                 !.pre_backfill = existing1]
               ELSE [hist EXCEPT !.before = before, !.reported = reported]

\* if match: matched_count += 1; if self.update_amiibo(match, scraped): ...
\* u is what update_amiibo gives
match_found(m, u) ==
    /\ match' = m
    /\ matched_count' = matched_count + 1
    /\ updated_amiibos' = IF u[2] THEN Append(updated_amiibos, existing_amiibos[m].name)
                          ELSE updated_amiibos
    /\ loop_next([existing_amiibos EXCEPT ![m] = u[1]], new_count, existing_amiibos[m], u[2])

\* the placeholder counted but not put into the working catalog
match_missing_unlisted(new_amiibo) ==
    /\ match' = 0
    /\ UNCHANGED << matched_count, updated_amiibos >>
    /\ loop_next(existing_amiibos, new_count + 1, EmptyDict, FALSE)

\* the placeholder put in the place of the last entry of the catalog
match_missing_replacing(new_amiibo) ==
    /\ match' = 0
    /\ UNCHANGED << matched_count, updated_amiibos >>
    /\ loop_next(IF existing_amiibos = <<>> THEN <<new_amiibo>>
                 ELSE [existing_amiibos EXCEPT ![Len(existing_amiibos)] = new_amiibo],
                 new_count + 1, EmptyDict, FALSE)

\* else: new_count += 1; existing_amiibos.append(new_amiibo)
match_missing(new_amiibo) ==
    /\ match' = 0
    /\ UNCHANGED << matched_count, updated_amiibos >>
    /\ loop_next(Append(existing_amiibos, new_amiibo), new_count + 1, EmptyDict, FALSE)

\* the body of the loop for the scraped amiibo and its match m
match_or_create(scraped, m) ==
    IF m # 0 THEN match_found(m, update_amiibo(existing_amiibos[m], scraped))
    ELSE match_missing(create_placeholder_amiibo(scraped))

\* one iteration of: for scraped in scraped_amiibos
MatchStep ==
    /\ pc = "match"
    /\ UNCHANGED << fnVars, procVars >>
    /\ match_or_create(scraped_amiibos[idx],
                       find_best_match(scraped_amiibos[idx], existing_amiibos))
    /\ UNCHANGED << fileVars, site, force, scraped_amiibos, backfilled_count, bfVars,
                    result, runs >>

\* needs_backfill = [a for a in amiibos if a.get("is_upcoming")], as indices
RECURSIVE upcoming_indices(_, _)
upcoming_indices(amiibos, i) ==
    IF i > Len(amiibos) THEN <<>>
    ELSE (IF Get(amiibos[i], "is_upcoming", FALSE) THEN <<i>> ELSE <<>>)
         \o upcoming_indices(amiibos, i + 1)

\* backfill_from_amiiboapi returns 0 before its loop: failure is how the fetch
\* failed, "ok" where nothing needs backfilling
backfill_nothing(failure) ==
    /\ backfilled_count' = 0
    /\ pc' = "save"
    /\ hist' = [hist EXCEPT !.backfill = failure]
    /\ UNCHANGED bfVars

\* the loop of backfill_from_amiiboapi begins
backfill_begin(api, nb) ==
    IF nb = <<>> THEN backfill_nothing("ok")
    ELSE /\ api_amiibos' = api
         /\ needs_backfill' = nb
         /\ bf_idx' = 1
         /\ bf_count' = 0
         /\ pc' = "backfill_loop"
         /\ UNCHANGED << backfilled_count, hist >>

\* backfill_from_amiiboapi up to its loop: the fetch of the AmiiboAPI list
BackfillFetch ==
    /\ pc = "backfill"
    /\ UNCHANGED << fnVars, procVars >>
    /\ \E response \in ApiResponses :
         IF response.kind # "ok" THEN backfill_nothing(response.kind)
         ELSE IF response.amiibo = <<>> THEN backfill_nothing("empty")
         ELSE backfill_begin(response.amiibo, upcoming_indices(existing_amiibos, 1))
    /\ UNCHANGED << fileVars, site, force, scraped_amiibos, existing_amiibos, idx, match,
                    matched_count, new_count, updated_amiibos, result, runs >>

\* an exception in the loop: the except clause of backfill_from_amiiboapi returns 0
backfill_raised(existing1) ==
    /\ existing_amiibos' = existing1
    /\ backfilled_count' = 0
    /\ pc' = "save"
    /\ hist' = [hist EXCEPT !.backfill = "raised"]
    /\ UNCHANGED << bf_idx, bf_count >>

\* the end of one iteration of the loop; behind the last one, return backfilled_count
backfill_next(existing1, count1, done) ==
    /\ existing_amiibos' = existing1
    /\ bf_count' = count1
    /\ bf_idx' = bf_idx + 1
    /\ IF bf_idx = Len(needs_backfill)
       THEN /\ backfilled_count' = count1
            /\ pc' = "save"
            /\ hist' = [hist EXCEPT !.promoted = @ \cup done, !.backfill = "ok"]
       ELSE /\ UNCHANGED << backfilled_count, pc >>
            /\ hist' = [hist EXCEPT !.promoted = @ \cup done]

\* self.backfill_amiibo_data(placeholder, match); backfilled_count += 1
\* r is what backfill_amiibo_data gives for the placeholder at index i
backfill_done(i, r) ==
    IF r.raised THEN backfill_raised([existing_amiibos EXCEPT ![i] = r.entry])
    ELSE backfill_next([existing_amiibos EXCEPT ![i] = r.entry], bf_count + 1, {i})

\* the body of the loop for the placeholder at index i and its match m
backfill_one(i, m) ==
    IF m = -1 THEN backfill_raised(existing_amiibos)
    ELSE IF m = 0 THEN backfill_next(existing_amiibos, bf_count, {})
    ELSE backfill_done(i, backfill_amiibo_data(existing_amiibos[i], api_amiibos[m]))

\* one iteration of: for placeholder in needs_backfill
BackfillStep ==
    /\ pc = "backfill_loop"
    /\ UNCHANGED << fnVars, procVars >>
    /\ backfill_one(needs_backfill[bf_idx],
                    find_amiiboapi_match(existing_amiibos[needs_backfill[bf_idx]], api_amiibos))
    /\ UNCHANGED << fileVars, site, force, scraped_amiibos, idx, match, matched_count,
                    new_count, updated_amiibos, api_amiibos, needs_backfill, result, runs >>

\* the test without new_count: if updated_amiibos or backfilled_count > 0
should_save_without_new == updated_amiibos # <<>> \/ backfilled_count > 0

\* the save without any test
should_save_always == TRUE

\* if updated_amiibos or new_count > 0 or backfilled_count > 0
should_save == updated_amiibos # <<>> \/ new_count > 0 \/ backfilled_count > 0

\* a save that keeps the entries of the file that amiibos does not hold
save_amiibos_keeping(amiibos) ==
    amiibos \o SelectSeq(database, LAMBDA e : \A i \in DOMAIN amiibos : amiibos[i] # e)

\* save_amiibos(amiibos): the "amiibo" list json.dump writes over the file
save_amiibos(amiibos) == amiibos

\* the end of run: save_amiibos if anything changed, and the result
Finish ==
    /\ pc = "save"
    /\ UNCHANGED << fnVars, procVars >>
    /\ IF should_save
       THEN /\ database' = save_amiibos(existing_amiibos)
            /\ db_exists' = TRUE
            /\ db_age' = 0
            /\ hist' = [hist EXCEPT !.save_calls = @ + 1]
       ELSE UNCHANGED << fileVars, hist >>
    /\ result' = [ status |-> "success", matched |-> matched_count, new |-> new_count,
                   updated |-> Len(updated_amiibos), backfilled |-> backfilled_count ]
    /\ pc' = "idle"
    /\ UNCHANGED << site, force, runVars, bfVars, runs >>

Next ==
    \/ Tick
    \/ RunStart
    \/ Scrape
    \/ Load
    \/ MatchStep
    \/ BackfillFetch
    \/ BackfillStep
    \/ Finish

Spec == Init /\ [][Next]_vars

(***************************************************************************)
(* Two processes calling run() on the same amiibo_database.json: ConcSpec  *)
(* schedules one of them at a time, each step of run() being one action,   *)
(* and lets the lineup page change in between.                             *)
(***************************************************************************)
\* the other process is scheduled: the locals of run() change places
Switch ==
    /\ cur' = 3 - cur
    /\ other' = RunOf(pc, force, scraped_amiibos, existing_amiibos, idx, match, matched_count,
                      new_count, updated_amiibos, backfilled_count, api_amiibos,
                      needs_backfill, bf_idx, bf_count, result, hist)
    /\ pc' = other.pc
    /\ force' = other.force
    /\ scraped_amiibos' = other.scraped_amiibos
    /\ existing_amiibos' = other.existing_amiibos
    /\ idx' = other.idx
    /\ match' = other.match
    /\ matched_count' = other.matched_count
    /\ new_count' = other.new_count
    /\ updated_amiibos' = other.updated_amiibos
    /\ backfilled_count' = other.backfilled_count
    /\ api_amiibos' = other.api_amiibos
    /\ needs_backfill' = other.needs_backfill
    /\ bf_idx' = other.bf_idx
    /\ bf_count' = other.bf_count
    /\ result' = other.result
    /\ hist' = other.hist
    /\ UNCHANGED << fileVars, site, runs, fnVars >>

\* the lineup pages of the two-process runs: one link, of an amiibo not in the file
NewsPages == { <<l>> : l \in { k \in LineupLinks : k.name \in {"Dr. Mario", "Mario Jr."} } }

\* nintendo.com publishes another lineup
PageChanges ==
    /\ site' \in NewsPages \ {site}
    /\ UNCHANGED << fileVars, pc, force, runVars, bfVars, result, runs, hist, fnVars, procVars >>

\* no run is under way and two runs are left to call
TwoRunsLeft ==
    /\ db_age = 0
    /\ pc = "idle"
    /\ force = FALSE
    /\ scraped_amiibos = <<>>
    /\ existing_amiibos = <<>>
    /\ idx = 0
    /\ match = 0
    /\ matched_count = 0
    /\ new_count = 0
    /\ updated_amiibos = <<>>
    /\ backfilled_count = 0
    /\ api_amiibos = <<>>
    /\ needs_backfill = <<>>
    /\ bf_idx = 0
    /\ bf_count = 0
    /\ result = NoResult
    /\ runs = MaxRuns - 2
    /\ hist = IdleRun.hist

ConcInit ==
    /\ database \in InitialCatalogs
    /\ db_exists \in BOOLEAN
    /\ (~db_exists => database = <<>>)
    /\ site \in NewsPages
    /\ TwoRunsLeft
    /\ FnIdle
    /\ Alone

ConcNext ==
    \/ Tick
    \/ RunStart
    \/ Scrape
    \/ Load
    \/ MatchStep
    \/ BackfillFetch
    \/ BackfillStep
    \/ Finish
    \/ Switch
    \/ PageChanges

ConcSpec == ConcInit /\ [][ConcNext]_vars

(***************************************************************************)
(* Runs on a file that earlier runs have left provisional entries in:      *)
(* PendingSpec is run() as in Spec, from catalogs that hold placeholders   *)
(* and on lineup pages that may list one amiibo under two spellings.       *)
(***************************************************************************)
\* the link of the lineup page with this name
LinkOf(name) == CHOOSE l \in LineupLinks : l.name = name

\* the placeholder an earlier run created for Mario
PendingMario == create_placeholder_amiibo(LinkOf("Mario"))

\* the placeholder an earlier run created for Link, listed without a date then
PendingLink == create_placeholder_amiibo([LinkOf("Link") EXCEPT !.release_date = ""])

PendingCatalogs == { <<PendingMario, TeaserEntry>>, <<PendingLink>>, <<MarioEntry>> }

\* Link under another spelling, without series, date or image
ShoutedLink == [name |-> "LINK", series |-> "", release_date |-> "", image |-> ""]

PendingLinks == { LinkOf("Link"), LinkOf("Mario"), ShoutedLink }

PendingPages ==
    UNION { { p \in [1..n -> PendingLinks] : \A i, j \in 1..n : i # j => p[i] # p[j] }
            : n \in 0..MaxLinks }

PendingInit ==
    /\ database \in PendingCatalogs
    /\ db_exists = TRUE
    /\ site \in PendingPages
    /\ RunIdle
    /\ FnIdle
    /\ Alone

PendingSpec == PendingInit /\ [][Next]_vars

(***************************************************************************)
(* The methods called on their own: FnSpec calls normalize_name,           *)
(* calculate_similarity, the scoring of find_best_match, find_best_match   *)
(* and update_amiibo on arguments drawn from the pools below, one call per  *)
(* behaviour (the methods keep no state between calls).                    *)
(***************************************************************************)
\* the characters of the raw names: a letter, a capital, a blank, the
\* parentheses, the dash and a punctuation mark
RawChars == "aB ()-."

\* the length of the raw names
MaxRawLen == 3

RECURSIVE StringsOfLen(_)
StringsOfLen(n) ==
    IF n = 0 THEN {""}
    ELSE { s \o CharAt(RawChars, i) : s \in StringsOfLen(n - 1), i \in 1..Len(RawChars) }

\* names as the lineup page and the catalog spell them
SpelledNames ==
    { "Mario - Super Smash Bros.", "Link (The Legend of Zelda)", "  Multiple   Spaces  ",
      "Inkling - Side Order", "Callie - Alterna", "Dr. Mario", "Mario Jr.", "???" }

RawNames == SpelledNames \cup UNION { StringsOfLen(n) : n \in 0..MaxRawLen }

\* normalized names
ScoreNames ==
    { "", "mario", "mario super", "chrom", "luigi", "dr mario", "mario jr", "link",
      "ab", "bacb" }

\* Command.calculate_similarity of the management command scrape_nintendo_amiibos
command_calculate_similarity(name1, name2) ==
    IF Contains(name2, name1) \/ Contains(name1, name2) THEN Rat(9, 10)
    ELSE word_score(SplitWords(name1), SplitWords(name2))

ProbeListings ==
    { [name |-> name, series |-> "Super Mario", release_date |-> date, image |-> ""] :
          name \in {"Mario", "Dr. Mario", "???"}, date \in {"", "2014-11-21"} }

\* a catalog entry of the name with the NA date na ("" for an entry that has
\* only an EU date); the entries named Mario have an empty series
ProbeEntry(name, na) ==
    [ amiiboSeries |-> IF name = "Link" THEN "The Legend of Zelda" ELSE "",
      character |-> name,
      gameSeries |-> IF name = "Link" THEN "The Legend of Zelda" ELSE "",
      head |-> "01010000", image |-> "", name |-> name,
      release |-> IF na = "" THEN [eu |-> "2014-11-28"] ELSE [na |-> na],
      tail |-> "00000002", type |-> "Figure" ]

ProbeEntries ==
    { ProbeEntry(name, na) :
          name \in {"Mario", "Link", "???"},
          na \in {"", "2014-11-21", "2014-12-21", "2014-12-22", "TBA"} }

\* the length of the catalogs find_best_match is called on
MaxCatalog == 2

ProbeCatalogs == UNION { [1..n -> ProbeEntries] : n \in 0..MaxCatalog }

\* the values of __init__(min_similarity=...)
Thresholds == { Rat(0, 1), Rat(3, 10), Rat(6, 10), Rat(1, 1) }

scraperVars == << fileVars, site, pc, force, runVars, bfVars, result, runs, hist, procVars >>

FnInit ==
    /\ database = <<>>
    /\ db_exists = FALSE
    /\ site = <<>>
    /\ RunIdle
    /\ FnIdle
    /\ Alone

\* normalize_name(name)
CallNormalizeName ==
    /\ fn = "none"
    /\ \E name \in RawNames :
         /\ fn' = "normalize_name"
         /\ args' = <<name>>
         /\ out' = normalize_name(name)
    /\ UNCHANGED scraperVars

\* normalize_name on what normalize_name returned
CallNormalizeNameAgain ==
    /\ fn = "normalize_name"
    /\ fn' = "normalize_name again"
    /\ args' = <<out>>
    /\ out' = normalize_name(out)
    /\ UNCHANGED scraperVars

\* calculate_similarity(name1, name2)
CallCalculateSimilarity ==
    /\ fn = "none"
    /\ \E name1 \in ScoreNames, name2 \in ScoreNames :
         /\ fn' = "calculate_similarity"
         /\ args' = <<name1, name2>>
         /\ out' = calculate_similarity(name1, name2)
    /\ UNCHANGED scraperVars

\* Command.calculate_similarity(name1, name2)
CallCommandCalculateSimilarity ==
    /\ fn = "none"
    /\ \E name1 \in ScoreNames, name2 \in ScoreNames :
         /\ fn' = "Command.calculate_similarity"
         /\ args' = <<name1, name2>>
         /\ out' = command_calculate_similarity(name1, name2)
    /\ UNCHANGED scraperVars

\* the final_score find_best_match computes for a listing and one entry
CallFinalScore ==
    /\ fn = "none"
    /\ \E scraped_amiibo \in ProbeListings, amiibo \in ProbeEntries :
         /\ fn' = "final_score"
         /\ args' = <<scraped_amiibo, amiibo>>
         /\ out' = final_score(scraped_amiibo, amiibo)
    /\ UNCHANGED scraperVars

\* find_best_match(scraped_amiibo, existing_amiibos) of a scraper constructed
\* with min_similarity = threshold
CallFindBestMatch ==
    /\ fn = "none"
    /\ \E scraped_amiibo \in ProbeListings, catalog \in ProbeCatalogs,
          threshold \in Thresholds :
         /\ fn' = "find_best_match"
         /\ args' = <<scraped_amiibo, catalog, threshold>>
         /\ out' = best_upto(scraped_amiibo, catalog, Len(catalog), threshold)[1]
    /\ UNCHANGED scraperVars

\* update_amiibo(existing_amiibo, scraped_data)
CallUpdateAmiibo ==
    /\ fn = "none"
    /\ \E existing_amiibo \in ProbeEntries, scraped_data \in ProbeListings :
         /\ fn' = "update_amiibo"
         /\ args' = <<existing_amiibo, scraped_data>>
         /\ out' = update_amiibo(existing_amiibo, scraped_data)
    /\ UNCHANGED scraperVars

\* the provisional entries backfill_amiibo_data is called on: placeholders of the
\* scraper with and without an NA date, one that holds an EU date and no image,
\* and one written by hand
ProbePlaceholders ==
    { PendingMario, PendingLink,
      [PendingLink EXCEPT !.release = [eu |-> "2014-11-28", na |-> ""], !.image = ""],
      TeaserEntry }

\* a record of AmiiboAPI with the identifiers only
ApiBare == [head |-> "00000000", name |-> "Mario", tail |-> "00340102"]

ProbeApiAmiibos == { ApiMario, ApiLuigi, ApiBare }

\* backfill_amiibo_data(placeholder, api_amiibo)
CallBackfillAmiiboData ==
    /\ fn = "none"
    /\ \E placeholder \in ProbePlaceholders, api_amiibo \in ProbeApiAmiibos :
         /\ fn' = "backfill_amiibo_data"
         /\ args' = <<placeholder, api_amiibo>>
         /\ out' = backfill_amiibo_data(placeholder, api_amiibo)
    /\ UNCHANGED scraperVars

(***************************************************************************)
(* AmiiboService.seed_new_amiibos: the rows it appends to the collection   *)
(* sheet and the rows it updates, for a list of catalog entries and the    *)
(* values of the sheet. A row is the sequence of its six cells.            *)
(***************************************************************************)
HEADER ==
    <<"Amiibo ID", "Amiibo Name", "Game Series", "Release Date", "Type", "Collected Status">>

Pad2(s) == IF Len(s) = 1 THEN "0" \o s ELSE s

\* parsed_date.strftime("%m/%d/%Y") of the date split at its dashes d1 and d2
strftime_at(date, d1, d2) ==
    Pad2(SubSeq(date, d1 + 1, d2 - 1)) \o "/" \o Pad2(Drop(date, d2 + 1)) \o "/"
        \o SubSeq(date, 1, d1 - 1)

strftime_from(date, d1) == strftime_at(date, d1, IndexFrom(date, "-", d1 + 1))

\* strptime(date_str, "%Y-%m-%d") formatted as %m/%d/%Y; except ValueError: date_str
format_date(date_str) ==
    IF strptime(date_str) = -1 THEN date_str
    ELSE strftime_from(date_str, IndexFrom(date_str, "-", 1))

FormatRegions == <<"na", "eu", "jp", "au">>

\* _format_release_date(release_info): the first region that has a date, "" for None
RECURSIVE format_release_from(_, _)
format_release_from(release_info, i) ==
    IF i > Len(FormatRegions) THEN ""
    ELSE IF Get(release_info, FormatRegions[i], "") # ""
         THEN format_date(release_info[FormatRegions[i]])
         ELSE format_release_from(release_info, i + 1)

format_release_date(release_info) == format_release_from(release_info, 1)

\* existing_map[amiibo_id][0]: the last row of the sheet with this ID, 0 for none
existing_index(existing_values, amiibo_id) ==
    LET hits == { i \in 2..Len(existing_values) :
                    existing_values[i] # <<>> /\ existing_values[i][1] = amiibo_id }
    IN  IF hits = {} THEN 0 ELSE CHOOSE i \in hits : \A j \in hits : j <= i

\* the row extended to the six columns of the header
extended_row(row) == [c \in 1..Len(HEADER) |-> IF c <= Len(row) THEN row[c] ELSE ""]

\* the empty cells Game Series, Release Date and Type filled from the amiibo
filled_row(row, amiibo, release_date) ==
    [c \in 1..Len(HEADER) |->
        IF c = 3 /\ row[c] = "" /\ Get(amiibo, "gameSeries", "") # "" THEN amiibo.gameSeries
        ELSE IF c = 4 /\ row[c] = "" /\ release_date # "" THEN release_date
        ELSE IF c = 5 /\ row[c] = "" /\ Get(amiibo, "type", "") # "" THEN amiibo.type
        ELSE row[c]]

\* if amiibo.get("_needs_backfill") or head == "00000000" or tail == "00000000": continue
seed_skips(amiibo) ==
    \/ Get(amiibo, "_needs_backfill", FALSE)
    \/ Get(amiibo, "head", "") = "00000000"
    \/ Get(amiibo, "tail", "") = "00000000"

\* the row of an amiibo that is not in the sheet appended, or the row it has updated
seed_row(acc, amiibo, amiibo_id, release_date, row_index, existing_values) ==
    IF row_index = 0
    THEN IF "name" \notin DOMAIN amiibo THEN [acc EXCEPT !.raised = TRUE]
         ELSE [acc EXCEPT !.new_rows =
                   Append(@, <<amiibo_id, amiibo.name, Get(amiibo, "gameSeries", ""),
                               release_date, Get(amiibo, "type", ""), "0">>)]
    ELSE IF filled_row(extended_row(existing_values[row_index]), amiibo, release_date)
              = extended_row(existing_values[row_index])
         THEN acc
         ELSE [acc EXCEPT !.updates =
                   Put(@, row_index,
                       filled_row(extended_row(existing_values[row_index]), amiibo,
                                  release_date))]

\* one iteration of: for amiibo in amiibos
seed_one(acc, amiibo, existing_values) ==
    IF acc.raised \/ seed_skips(amiibo) THEN acc
    ELSE IF {"head", "gameSeries", "tail"} \subseteq DOMAIN amiibo
         THEN seed_row(acc, amiibo, amiibo.head \o amiibo.gameSeries \o amiibo.tail,
                       format_release_date(Get(amiibo, "release", EmptyDict)),
                       existing_index(existing_values,
                                      amiibo.head \o amiibo.gameSeries \o amiibo.tail),
                       existing_values)
         ELSE [acc EXCEPT !.raised = TRUE]

RECURSIVE seed_upto(_, _, _)
seed_upto(amiibos, existing_values, i) ==
    IF i = 0 THEN [new_rows |-> <<>>, updates |-> EmptyDict, raised |-> FALSE]
    ELSE seed_one(seed_upto(amiibos, existing_values, i - 1), amiibos[i], existing_values)

\* what seed_new_amiibos writes: nothing where a KeyError ended the loop
written(acc) ==
    IF acc.raised THEN [new_rows |-> <<>>, updates |-> EmptyDict, raised |-> TRUE] ELSE acc

seed_new_amiibos(amiibos, existing_values) ==
    written(seed_upto(amiibos, existing_values, Len(amiibos)))

\* the placeholder of the management command for Luigi
NeedsBackfillEntry ==
    [ amiiboSeries |-> "Super Mario", character |-> "Luigi", gameSeries |-> "Super Mario",
      head |-> "00000000", image |-> "", name |-> "Luigi", release |-> EmptyDict,
      tail |-> "00000000", type |-> "Figure", _needs_backfill |-> TRUE ]

\* the entry of Luigi as AmiiboAPI has it
LuigiEntry ==
    [ amiiboSeries |-> "Super Mario Bros.", character |-> "Luigi",
      gameSeries |-> "Super Mario", head |-> "00010000", image |-> "luigi.png",
      name |-> "Luigi", release |-> [eu |-> "2015-03-20", na |-> "TBA"],
      tail |-> "00350102", type |-> "Figure" ]

SeedEntries ==
    { MarioEntry, LinkEntry, LuigiEntry, PendingMario, PendingLink, NeedsBackfillEntry,
      TeaserEntry }

SeedLists == UNION { [1..n -> SeedEntries] : n \in 0..MaxCatalog }

\* sheet.get_all_values(): the header alone, or with the row of Link, whose
\* Game Series and Release Date are empty and whose last cells are missing
SheetValues ==
    { <<HEADER>>,
      <<HEADER, <<"01010000The Legend of Zelda00000002", "Link", "", "">> >> }

\* seed_new_amiibos(amiibos)
CallSeedNewAmiibos ==
    /\ fn = "none"
    /\ \E amiibos \in SeedLists, existing_values \in SheetValues :
         /\ fn' = "seed_new_amiibos"
         /\ args' = <<amiibos, existing_values>>
         /\ out' = seed_new_amiibos(amiibos, existing_values)
    /\ UNCHANGED scraperVars

FnNext ==
    \/ CallNormalizeName
    \/ CallNormalizeNameAgain
    \/ CallCalculateSimilarity
    \/ CallCommandCalculateSimilarity
    \/ CallFinalScore
    \/ CallFindBestMatch
    \/ CallUpdateAmiibo
    \/ CallBackfillAmiiboData
    \/ CallSeedNewAmiibos

FnSpec == FnInit /\ [][FnNext]_vars

(***************************************************************************)
(* Properties                                                              *)
(***************************************************************************)
\* the loop of run has just handled the listing scraped_amiibos[idx - 1], and
\* the backfill stage has not touched the working catalog yet
JustMatched == pc \in {"match", "backfill", "save"} /\ idx > 1 /\ hist.backfill = "none"

\* the listing the loop has just handled
LastListing == scraped_amiibos[idx - 1]

\* a.get("is_upcoming")
IsUpcoming(a) == Get(a, "is_upcoming", FALSE)

\* the (head, tail) identifier of an entry
Identifier(a) == <<Get(a, "head", ""), Get(a, "tail", "")>>

BackfillFailures == {"request_error", "unparsable", "empty"}

\* C1: a forced run after a successful run, on the same page and on the catalog
\* that run left, reports new = 0 and updated = 0 and leaves the file as it was.
C1_SecondRunIsNoOp ==
    (pc = "idle" /\ hist.force /\ hist.prev_status = "success" /\ result.status = "success")
        => /\ result.new = 0
           /\ result.updated = 0
           /\ database = hist.db_at_start

\* C2 as stated: where the matched entry holds a value for a field (name, image,
\* series or NA date) and the listing carries a different value for it,
\* update_amiibo leaves the entry as it was and returns False.
C2_AnyHeldFieldBlocksUpdate ==
    (/\ JustMatched
     /\ match # 0
     /\ \/ Get(hist.before, "name", "") \notin {"", LastListing.name}
        \/ Get(hist.before, "image", "") \notin {"", LastListing.image}
        \/ Get(hist.before, "amiiboSeries", "") \notin {"", LastListing.series}
        \/ NaDate(hist.before) \notin {"", LastListing.release_date})
        => existing_amiibos[match] = hist.before /\ ~hist.reported

\* C2 amended: where the matched entry holds an NA release date, update_amiibo
\* leaves every field of the entry as it was and returns False, whatever date
\* the listing carries.
C2_HeldNaDateBlocksUpdate ==
    (JustMatched /\ match # 0 /\ NaDate(hist.before) # "")
        => existing_amiibos[match] = hist.before /\ ~hist.reported

\* the entry held an NA date and the listing carried another one
C2_Witness ==
    /\ JustMatched
    /\ match # 0
    /\ NaDate(hist.before) # ""
    /\ LastListing.release_date \notin {"", NaDate(hist.before)}

\* C3: the entry find_best_match selects for a listing has a combined score
\* (similarity of the normalized names plus date boost, at most 1) of at least
\* min_similarity.
C3_MatchMeetsThreshold ==
    (JustMatched /\ match # 0)
        => RatGE(final_score(LastListing, hist.before), min_similarity)

\* an entry was selected on a score below 1
C3_Witness ==
    /\ JustMatched
    /\ match # 0
    /\ ~RatGE(final_score(LastListing, hist.before), Rat(1, 1))

\* C4: once the ingestion gave no listings or raised, run has returned the
\* error, save_amiibos was not called and the file is what it was at the call.
C4_IngestionFailClosed ==
    hist.ingest \in {"empty", "request_error", "raised"}
        => /\ pc = "idle"
           /\ result.status = "error"
           /\ hist.save_calls = 0
           /\ database = hist.db_at_start
           /\ db_exists = hist.exists_at_start

\* a page whose links were all skipped, over a catalog that holds entries
C4_Witness ==
    /\ hist.ingest = "empty"
    /\ site # <<>>
    /\ database # <<>>
    /\ result.status = "error"

\* C5: a run whose backfill stage failed on the fetch (request error,
\* unparsable or empty answer) has saved the catalog of the matching loop: every
\* merge and every placeholder made before the backfill stage.
C5_BackfillFailurePersists ==
    (pc = "idle" /\ hist.backfill \in BackfillFailures)
        => /\ hist.save_calls = 1
           /\ db_exists
           /\ database = hist.pre_backfill
           /\ Len(database) = Len(hist.db_at_start) + result.new

\* the backfill failed after a merge and a placeholder
C5_Witness ==
    /\ pc = "idle"
    /\ hist.backfill = "unparsable"
    /\ result.status = "success"
    /\ result.updated > 0
    /\ result.new > 0

\* C6: a run whose backfill stage failed reports the status partial.
C6_BackfillFailureIsPartial ==
    (pc = "idle" /\ hist.backfill \in BackfillFailures) => result.status = "partial"

\* C7: with force false and should_run false, run returns skipped / cache_valid
\* without ingestion, load or save; with force true it goes on to the
\* ingestion whatever should_run gives.
C7_StalenessGate ==
    /\ (runs > 0 /\ ~hist.force /\ ~hist.should_run)
           => /\ pc = "idle"
              /\ result = [status |-> "skipped", reason |-> "cache_valid"]
              /\ hist.scrape_calls = 0
              /\ hist.load_calls = 0
              /\ hist.save_calls = 0
              /\ database = hist.db_at_start
    /\ (runs > 0 /\ hist.force)
           => /\ result.status # "skipped"
              /\ pc = "scrape" \/ hist.scrape_calls = 1

\* a forced run got to the ingestion on a fresh file, after a run that was skipped
C7_Witness ==
    /\ hist.prev_status = "skipped"
    /\ hist.force
    /\ ~hist.should_run
    /\ hist.scrape_calls = 1

\* C8: no two entries of the file share the (head, tail) identifier (the
\* catalogs at the start share none).
C8_UniqueIdentifiers ==
    \A i, j \in 1..Len(database) :
        i # j => Identifier(database[i]) # Identifier(database[j])

\* C9: the placeholder made for a listing has head "ff" + digest[:6] and tail
\* "ff" + digest[6:12] of the sha256 hex digest of the name, neither of them the
\* sentinel "00000000", and the same as an earlier entry of that name.
C9_PlaceholderIdentifiers ==
    (JustMatched /\ match = 0)
        => /\ existing_amiibos[Len(existing_amiibos)].head
                  = "ff" \o SubSeq(sha256_hexdigest(LastListing.name), 1, 6)
           /\ existing_amiibos[Len(existing_amiibos)].tail
                  = "ff" \o SubSeq(sha256_hexdigest(LastListing.name), 7, 12)
           /\ Len(existing_amiibos[Len(existing_amiibos)].head) = 8
           /\ Len(existing_amiibos[Len(existing_amiibos)].tail) = 8
           /\ existing_amiibos[Len(existing_amiibos)].head # "00000000"
           /\ existing_amiibos[Len(existing_amiibos)].tail # "00000000"
           /\ \A j \in 1..Len(existing_amiibos) :
                  existing_amiibos[j].name = LastListing.name
                      => Identifier(existing_amiibos[j])
                             = Identifier(existing_amiibos[Len(existing_amiibos)])

\* a second placeholder was made for a name
C9_Witness ==
    /\ JustMatched
    /\ match = 0
    /\ \E j \in 1..(Len(existing_amiibos) - 1) : existing_amiibos[j].name = LastListing.name

\* C10: in the backfill stage an entry backfill_amiibo_data promoted is no
\* longer upcoming, and an upcoming entry that was not promoted still is.
C10_PromotionClearsFlag ==
    (pc = "backfill_loop" \/ hist.backfill # "none")
        => \A i \in 1..Len(existing_amiibos) :
               /\ i \in hist.promoted => ~IsUpcoming(existing_amiibos[i])
               /\ (i \notin hist.promoted /\ IsUpcoming(hist.pre_backfill[i]))
                      => IsUpcoming(existing_amiibos[i])

\* C11: a run writes the file at most once; while the run is at work nothing
\* is written; what is written is the working catalog as the run leaves it;
\* and a run that reports new = 0, updated = 0 and backfilled = 0 writes nothing.
C11_WriteOnceAtEnd ==
    /\ hist.save_calls <= 1
    /\ pc # "idle"
           => /\ hist.save_calls = 0
              /\ database = hist.db_at_start
              /\ db_exists = hist.exists_at_start
    /\ hist.save_calls = 1 => (pc = "idle" /\ database = existing_amiibos)
    /\ (/\ pc = "idle"
        /\ result.status = "success"
        /\ result.new = 0
        /\ result.updated = 0
        /\ result.backfilled = 0)
           => (hist.save_calls = 0 /\ database = hist.db_at_start)

\* a run matched a listing, changed nothing and wrote nothing
C11_Witness ==
    /\ pc = "idle"
    /\ result.status = "success"
    /\ result.matched > 0
    /\ result.new = 0
    /\ result.updated = 0
    /\ result.backfilled = 0
    /\ hist.save_calls = 0

\* C15: an iteration of the loop that finds a match counts it once in matched;
\* where the listing has a date and the entry no NA date, the entry gets the
\* listing's date as NA date, keeps its other regional dates and every other
\* field, and is counted once in updated. An iteration that finds no match
\* counts once in new and appends an upcoming entry of the listing's name whose
\* head starts with "ff".
C15_MergeAndInsertCounted ==
    [][(pc = "match" /\ idx' = idx + 1)
          => IF match' # 0
             THEN /\ matched_count' = matched_count + 1
                  /\ new_count' = new_count
                  /\ Len(existing_amiibos') = Len(existing_amiibos)
                  /\ (scraped_amiibos[idx].release_date # ""
                      /\ NaDate(existing_amiibos[match']) = "")
                         => /\ NaDate(existing_amiibos'[match'])
                                   = scraped_amiibos[idx].release_date
                            /\ \A region \in DOMAIN Get(existing_amiibos[match'],
                                                        "release", EmptyDict) :
                                   region # "na"
                                       => Get(Get(existing_amiibos'[match'], "release", EmptyDict),
                                              region, "")
                                              = existing_amiibos[match'].release[region]
                            /\ \A key \in DOMAIN existing_amiibos[match'] :
                                   key # "release"
                                       => Get(existing_amiibos'[match'], key, "")
                                              = existing_amiibos[match'][key]
                            /\ updated_amiibos'
                                   = Append(updated_amiibos, existing_amiibos[match'].name)
             ELSE /\ new_count' = new_count + 1
                  /\ matched_count' = matched_count
                  /\ updated_amiibos' = updated_amiibos
                  /\ Len(existing_amiibos') = Len(existing_amiibos) + 1
                  /\ SubSeq(existing_amiibos', 1, Len(existing_amiibos)) = existing_amiibos
                  /\ existing_amiibos'[Len(existing_amiibos')].name
                         = scraped_amiibos[idx].name
                  /\ IsUpcoming(existing_amiibos'[Len(existing_amiibos')])
                  /\ SubSeq(existing_amiibos'[Len(existing_amiibos')].head, 1, 2) = "ff"]_vars

\* the listing's date became the NA date of an entry that held an EU date, in a
\* run that also made a placeholder
C15_Witness ==
    /\ JustMatched
    /\ match # 0
    /\ hist.reported
    /\ "eu" \in DOMAIN hist.before.release
    /\ NaDate(hist.before) = ""
    /\ NaDate(existing_amiibos[match]) = LastListing.release_date
    /\ existing_amiibos[match].release.eu = hist.before.release.eu
    /\ new_count > 0

\* C12: calculate_similarity(a, b) = calculate_similarity(b, a) for the
\* normalized names a and b.
C12_SimilaritySymmetric ==
    fn = "calculate_similarity" => out = calculate_similarity(args[2], args[1])

\* C13: normalize_name of what normalize_name returned returns it unchanged,
\* and normalize_name of the empty string is the empty string.
C13_NormalizeIdempotent ==
    /\ fn = "normalize_name again" => out = args[1]
    /\ (fn = "normalize_name" /\ args[1] = "") => out = ""

\* the second call on the normal form of "Mario - Super Smash Bros."
C13_Witness ==
    /\ fn = "normalize_name again"
    /\ args = <<"mario super smash bros">>
    /\ out = "mario super smash bros"

\* C14 as stated: calculate_similarity("mario", "mario super") is 0.9.
C14_SubstringScoreIsNineTenths ==
    (fn = "calculate_similarity" /\ args = <<"mario", "mario super">>)
        => out = Rat(9, 10)

\* C14 amended: calculate_similarity("mario", "mario super") is
\* 0.6 * 10/16 + 0.4 * 1/2 + 0.1 = 0.675, in either order of the names; 0.9 is
\* what the older Command.calculate_similarity returns for a substring.
C14_SubstringScoreIsWeighted ==
    /\ (fn = "calculate_similarity"
        /\ args \in {<<"mario", "mario super">>, <<"mario super", "mario">>})
           => out = Rat(675, 1000)
    /\ (fn = "Command.calculate_similarity" /\ args = <<"mario", "mario super">>)
           => out = Rat(9, 10)

C14_Witness ==
    /\ fn = "calculate_similarity"
    /\ args = <<"mario", "mario super">>
    /\ out = Rat(27, 40)

\* C16: two runs on the same file are not safe. A save writes the working
\* catalog of its run over the file whatever the file holds by then: every
\* entry another run has persisted since this run loaded, and that this run's
\* working catalog does not hold, is absent from the file afterwards.
C16_LastSaveWins ==
    [][(cur' = cur /\ pc = "save" /\ hist'.save_calls = hist.save_calls + 1)
          => /\ database' = existing_amiibos
             /\ \A i \in DOMAIN database :
                    (\A j \in DOMAIN existing_amiibos : existing_amiibos[j] # database[i])
                        => \A k \in DOMAIN database' : database'[k] # database[i]]_vars

\* both runs loaded the same catalog, so neither had saved when the other loaded;
\* both have saved, this one last; the placeholder the other run created and saved
\* for the amiibo of the lineup it read is not in the file, under any identifier
C16_Witness ==
    /\ pc = "idle" /\ other.pc = "idle"
    /\ hist.save_calls = 1 /\ other.hist.save_calls = 1
    /\ hist.load_calls = 1 /\ other.hist.load_calls = 1
    /\ hist.loaded = other.hist.loaded
    /\ database = existing_amiibos
    /\ \E i \in DOMAIN other.existing_amiibos :
           /\ IsUpcoming(other.existing_amiibos[i])
           /\ \A j \in DOMAIN other.hist.loaded :
                  Identifier(other.hist.loaded[j]) # Identifier(other.existing_amiibos[i])
           /\ \A k \in DOMAIN database :
                  /\ Identifier(database[k]) # Identifier(other.existing_amiibos[i])
                  /\ database[k].name # other.existing_amiibos[i].name

\* the final_score of the listing against each entry of the catalog
Scores(scraped_amiibo, catalog) ==
    [i \in 1..Len(catalog) |-> final_score(scraped_amiibo, catalog[i])]

\* the first index, in catalog order, of a greatest score
FirstMaximum(scores) ==
    CHOOSE i \in DOMAIN scores :
        /\ \A j \in DOMAIN scores : RatGE(scores[i], scores[j])
        /\ \A j \in 1..(i - 1) : RatGT(scores[i], scores[j])

\* the entry the spec selects: the first of the greatest score if that score is
\* at least the threshold, none (0) otherwise
SelectedBy(scores, threshold) ==
    IF DOMAIN scores = {} THEN 0
    ELSE IF RatGE(scores[FirstMaximum(scores)], threshold) THEN FirstMaximum(scores)
    ELSE 0

\* C17: find_best_match returns the first entry whose score is the greatest,
\* if that score is at least min_similarity, and no entry exactly when no score
\* is at least min_similarity, for min_similarity 0, 0.3, 0.6 and 1.
C17_FirstMaximumAtLeastThreshold ==
    fn = "find_best_match" => out = SelectedBy(Scores(args[1], args[2]), args[3])

\* C18: update_amiibo fills the empty series and the missing NA date of the
\* entry from the listing (a listing carries no item type), and returns True
\* exactly when the entry changed.
C18_MergeFillsEmptyFields ==
    fn = "update_amiibo"
        => /\ (args[1].amiiboSeries = "" /\ args[2].series # "")
                  => out[1].amiiboSeries = args[2].series
           /\ (NaDate(args[1]) = "" /\ args[2].release_date # "")
                  => NaDate(out[1]) = args[2].release_date
           /\ out[2] <=> (out[1] # args[1])

\* the name score of a listing and an entry
NameScore(scraped_amiibo, amiibo) ==
    calculate_similarity(normalize_name(scraped_amiibo.name), normalize_name(amiibo.name))

\* the days between two dates, -1 where one of them is no date
DaysApart(d1, d2) ==
    IF d1 = -1 \/ d2 = -1 THEN -1 ELSE IF d1 >= d2 THEN d1 - d2 ELSE d2 - d1

\* the boost of the spec for the listing's date and the entry's NA date
SpecBoost(scraped_date, na_date) ==
    IF scraped_date = "" \/ na_date = "" THEN Rat(0, 1)
    ELSE IF scraped_date = na_date THEN Rat(3, 10)
    ELSE IF DaysApart(strptime(scraped_date), strptime(na_date)) \in 0..30 THEN Rat(15, 100)
    ELSE Rat(0, 1)

\* C19: the final score is the name score plus 0.3 for equal dates, 0.15 for
\* dates at most 30 days apart (2014-11-21 and 2014-12-21 are 30 days apart,
\* 2014-11-21 and 2014-12-22 are 31), 0 otherwise and where a date is absent or
\* no date, and at most 1.
C19_DateBoost ==
    fn = "final_score"
        => /\ out = RatMin1(RatAdd(NameScore(args[1], args[2]),
                                   SpecBoost(args[1].release_date, NaDate(args[2]))))
           /\ RatGE(Rat(1, 1), out)
           /\ (args[1].release_date = "2014-11-21" /\ NaDate(args[2]) = "2014-12-21")
                  => out = RatMin1(RatAdd(NameScore(args[1], args[2]), Rat(15, 100)))
           /\ (args[1].release_date = "2014-11-21"
               /\ NaDate(args[2]) \in {"2014-12-22", "TBA", ""})
                  => out = NameScore(args[1], args[2])
           /\ args[1].release_date = "" => out = NameScore(args[1], args[2])

\* a listing and an entry 30 days apart, scored with the boost of 0.15
C19_Witness ==
    /\ fn = "final_score"
    /\ args[1].release_date = "2014-11-21"
    /\ NaDate(args[2]) = "2014-12-21"
    /\ RatGT(Rat(1, 1), out)
    /\ out = RatAdd(NameScore(args[1], args[2]), Rat(15, 100))

\* C20: where the normalized name of the listing or of the entry is empty the
\* final score is 0 whatever the dates, and find_best_match with a
\* min_similarity above 0 never returns such an entry.
C20_EmptyNameScoresZero ==
    /\ (fn = "final_score"
        /\ (normalize_name(args[1].name) = "" \/ normalize_name(args[2].name) = ""))
           => out = Rat(0, 1)
    /\ (fn = "find_best_match" /\ RatGT(args[3], Rat(0, 1)) /\ out # 0)
           => /\ normalize_name(args[1].name) # ""
              /\ normalize_name(args[2][out].name) # ""

\* C21: after a run whose backfill stage raised part-way, the backfilled count
\* of the result is the number of entries promoted before the failure, and the
\* file holds the working catalog with those promotions and the merges.
C21_PartialBackfillCounted ==
    (pc = "idle" /\ result.status = "success" /\ hist.backfill = "raised")
        => /\ result.backfilled = Cardinality(hist.promoted)
           /\ database = existing_amiibos
           /\ \A i \in hist.promoted : database[i] # hist.pre_backfill[i]

\* the date an entry holds for a region, "" for none
RegionDate(amiibo, region) == Get(Get(amiibo, "release", EmptyDict), region, "")

\* C22: backfill_amiibo_data leaves every regional date the placeholder holds
\* (na, jp, eu, au) as it is, and a date that differs afterwards is the date of
\* the AmiiboAPI record, in a region the placeholder had no date for.
C22_PromotionKeepsDates ==
    fn = "backfill_amiibo_data"
        => \A region \in {"na", "jp", "eu", "au"} :
               /\ RegionDate(args[1], region) # ""
                      => RegionDate(out.entry, region) = RegionDate(args[1], region)
               /\ RegionDate(out.entry, region) # RegionDate(args[1], region)
                      => /\ RegionDate(args[1], region) = ""
                         /\ RegionDate(out.entry, region) = RegionDate(args[2], region)

\* the placeholder of Mario keeps the NA date of nintendo.com and gets the EU
\* date of AmiiboAPI
C22_Witness ==
    /\ fn = "backfill_amiibo_data"
    /\ ~out.raised
    /\ RegionDate(args[1], "na") = "2014-11-21"
    /\ RegionDate(args[2], "na") = "2015-03-20"
    /\ RegionDate(out.entry, "na") = "2014-11-21"
    /\ RegionDate(args[1], "eu") = ""
    /\ RegionDate(out.entry, "eu") = "2015-03-20"

\* C23: backfill_amiibo_data leaves a non-empty image of the placeholder as it
\* is, whatever image the AmiiboAPI record has, also none.
C23_PromotionKeepsImage ==
    (fn = "backfill_amiibo_data" /\ ~out.raised /\ Get(args[1], "image", "") # "")
        => Get(out.entry, "image", "") = args[1].image

\* is_set_or_bundle on the names of the model, computed once
flagged == [name \in ModelNames |-> is_set_or_bundle(name)]

\* the links of the lineup page that are sets or bundles
BundleLinks == { i \in DOMAIN site : flagged[site[i].name] }

\* C24: a link whose name is_set_or_bundle flags is left out of the run: it is
\* not among the listings the loop handles, no entry of the working catalog or
\* of the file carries its name, its name is not reported as updated, and
\* matched + new counts the other links of the page only.
C24_BundlesExcluded ==
    /\ \A i \in DOMAIN scraped_amiibos : ~flagged[scraped_amiibos[i].name]
    /\ \A i \in DOMAIN existing_amiibos : ~flagged[existing_amiibos[i].name]
    /\ \A i \in DOMAIN database : ~flagged[database[i].name]
    /\ \A i \in DOMAIN updated_amiibos : ~flagged[updated_amiibos[i]]
    /\ (pc = "idle" /\ result.status = "success")
           => result.matched + result.new = Len(site) - Cardinality(BundleLinks)

\* a run on a page of a bundle and an amiibo has handled one listing
C24_Witness ==
    /\ pc = "idle"
    /\ result.status = "success"
    /\ Len(site) = 2
    /\ Cardinality(BundleLinks) = 1
    /\ \E i \in BundleLinks : site[i].name = "Mario 3-Pack"
    /\ result.matched + result.new = 1
    /\ Len(scraped_amiibos) = 1

\* the letter in upper case
UpperChar(c) ==
    IF CharIn(c, LowerChars)
    THEN CharAt(UpperChars, CHOOSE i \in 1..Len(LowerChars) : CharAt(LowerChars, i) = c)
    ELSE c

RECURSIVE Upper(_)
Upper(s) == IF s = "" THEN "" ELSE UpperChar(Head(s)) \o Upper(Tail(s))

\* the name without its punctuation characters
RECURSIVE Depunct(_)
Depunct(s) ==
    IF s = "" THEN ""
    ELSE (IF IsWord(Head(s)) \/ IsSpace(Head(s)) THEN Head(s) ELSE "") \o Depunct(Tail(s))

\* the name in upper case and without punctuation: it differs from the name in
\* letter case and punctuation only
Plain(name) == Upper(Depunct(name))

\* the name has no parenthesised part and no "- side order" or "- alterna" ending
NoVariantMarker(name) ==
    SubDashSuffix(SubDashSuffix(SubParens(Lower(name)), "side order"), "alterna") = Lower(name)

RowId(amiibo) == amiibo.head \o amiibo.gameSeries \o amiibo.tail

\* the entry is provisional: it carries is_upcoming, or its head or tail is an
\* ff placeholder and it has no release date
Provisional(amiibo) ==
    \/ IsUpcoming(amiibo)
    \/ /\ StartsWith(Get(amiibo, "head", ""), "ff") \/ StartsWith(Get(amiibo, "tail", ""), "ff")
       /\ format_release_date(Get(amiibo, "release", EmptyDict)) = ""

\* the entry has authoritative identifiers and no flag
Authoritative(amiibo) ==
    /\ ~IsUpcoming(amiibo)
    /\ ~Get(amiibo, "_needs_backfill", FALSE)
    /\ ~StartsWith(Get(amiibo, "head", ""), "ff")
    /\ ~StartsWith(Get(amiibo, "tail", ""), "ff")

\* the rows seed_new_amiibos appended or updated have this name
RowsNamed(name) ==
    { i \in DOMAIN out.new_rows : out.new_rows[i][2] = name }
        \cup { i \in DOMAIN out.updates : out.updates[i][2] = name }

\* C26: seed_new_amiibos appends or updates no row for a provisional entry, and
\* every authoritative entry has its row in the sheet afterwards.
C26_ProvisionalNeverSeeded ==
    (fn = "seed_new_amiibos" /\ ~out.raised)
        => \A i \in DOMAIN args[1] :
               /\ (Provisional(args[1][i])
                   /\ \A j \in DOMAIN args[1] : args[1][j].name = args[1][i].name
                                                   => Provisional(args[1][j]))
                      => RowsNamed(args[1][i].name) = {}
               /\ Authoritative(args[1][i])
                      => \/ \E r \in DOMAIN out.new_rows :
                                out.new_rows[r][1] = RowId(args[1][i])
                         \/ existing_index(args[2], RowId(args[1][i])) # 0

\* the provisional entries of a catalog
ProvisionalIn(amiibos) == { i \in DOMAIN amiibos : IsUpcoming(amiibos[i]) }

\* every entry of the loaded catalog is at its position in the catalog amiibos
KeepsLoaded(amiibos) ==
    /\ Len(amiibos) >= Len(hist.loaded)
    /\ \A i \in DOMAIN hist.loaded :
           Get(amiibos[i], "name", "") = Get(hist.loaded[i], "name", "")

\* C27: after a successful run every entry loaded at the start is at its
\* position in the working catalog and in the file, the catalog has the loaded
\* entries and the new ones, matched + new is the number of listings, updated
\* is at most matched and backfilled at most the number of provisional entries.
C27_NothingDeletedAllCounted ==
    (pc = "idle" /\ result.status = "success")
        => /\ KeepsLoaded(existing_amiibos)
           /\ KeepsLoaded(database)
           /\ Len(existing_amiibos) = Len(hist.loaded) + result.new
           /\ hist.save_calls = 1 => database = existing_amiibos
           /\ result.matched + result.new = Len(scraped_amiibos)
           /\ result.updated <= result.matched
           /\ result.backfilled <= Cardinality(ProvisionalIn(existing_amiibos))

\* a run on a file of two entries that matched one listing, inserted a
\* placeholder for another, promoted it and saved the three entries
C27_Witness ==
    /\ pc = "idle"
    /\ result.status = "success"
    /\ Len(hist.loaded) = 2
    /\ result.matched = 1
    /\ result.new = 1
    /\ result.backfilled = 1
    /\ Len(database) = 3

\* the entry b is the entry a, or a with its empty NA release date filled
SameButNaDate(a, b) ==
    LET ra == Get(a, "release", EmptyDict)
        rb == Get(b, "release", EmptyDict)
    IN  /\ DOMAIN b \ {"release"} = DOMAIN a \ {"release"}
        /\ \A k \in DOMAIN a \ {"release"} : b[k] = a[k]
        /\ \A region \in (DOMAIN ra \cup DOMAIN rb) \ {"na"} :
               region \in DOMAIN ra /\ region \in DOMAIN rb /\ rb[region] = ra[region]
        /\ Get(rb, "na", "") = Get(ra, "na", "") \/ Get(ra, "na", "") = ""

\* the run has ended with success
Succeeded == pc = "idle" /\ result.status = "success"

\* the backfill stage of the run was entered iff the run inserted a placeholder
BackfillIffNew == (hist.backfill # "none") <=> (result.new > 0)

\* C28 as stated: the backfill stage is attempted in a run iff the run inserted
\* a placeholder, and in a run with new = 0 every provisional entry loaded at
\* the start is in the catalog exactly as it was.
C28_ProvisionalUntouchedWithoutNew ==
    Succeeded
        => /\ BackfillIffNew
           /\ result.new = 0
                => \A i \in ProvisionalIn(hist.loaded) : existing_amiibos[i] = hist.loaded[i]

\* C28 as the code has it: the backfill stage is attempted in a run iff the run
\* inserted a placeholder, and in a run with new = 0 every provisional entry
\* loaded at the start keeps its identifiers, its flag and its fields, except
\* that the merge with a matching listing may fill its empty NA release date.
C28_ProvisionalKeptWithoutNew ==
    Succeeded
        => /\ BackfillIffNew
           /\ result.new = 0
                => /\ result.backfilled = 0
                   /\ hist.promoted = {}
                   /\ \A i \in ProvisionalIn(hist.loaded) :
                          SameButNaDate(hist.loaded[i], existing_amiibos[i])

\* a run with new = 0 that merged a date into a provisional entry of the file
C28_Witness ==
    /\ Succeeded
    /\ result.new = 0
    /\ hist.backfill = "none"
    /\ \E i \in ProvisionalIn(hist.loaded) :
           /\ existing_amiibos[i] # hist.loaded[i]
           /\ database[i] = existing_amiibos[i]

\* should_run is true exactly when the file is missing, is at least cache_hours
\* old, or its timestamp cannot be read
ShouldRunExact ==
    \A stat_ok \in BOOLEAN :
        should_run(stat_ok) <=> (~db_exists \/ db_age >= cache_hours \/ ~stat_ok)

\* the step is the end of a successful run that did not write the file
EndsWithoutSave == pc = "save" /\ pc' = "idle" /\ hist'.save_calls = 0

\* the step is a call of run(force=False) right after a successful run that did
\* not write the file
CalledAfterNoSave ==
    /\ Succeeded
    /\ hist.save_calls = 0
    /\ runs' = runs + 1
    /\ ~force'

\* C29 as stated: a run without the force argument that is called after a
\* successful run that did not write the file is not skipped.
C29_NotSkippedAfterUnchangedRun ==
    [][CalledAfterNoSave => result'.status # "skipped"]_vars

\* C29 as the code has it: should_run is true exactly when the file is missing,
\* at least cache_hours old or unreadable; a successful run that writes nothing
\* leaves the file and its age as they were; and a run without the force
\* argument called after it is skipped exactly when should_run is false, which
\* needs a file younger than cache_hours, so it is not skipped once the file is
\* cache_hours old.
C29_UnchangedRunKeepsAge ==
    /\ []ShouldRunExact
    /\ [][EndsWithoutSave => UNCHANGED << database, db_exists, db_age >>]_vars
    /\ [][CalledAfterNoSave
            => /\ (result'.status = "skipped") <=> ~hist'.should_run
               /\ ~hist'.should_run => (db_exists /\ db_age < cache_hours)
               /\ (~db_exists \/ db_age >= cache_hours) => result'.status # "skipped"]_vars

\* a successful run has ended without writing a file that was stale when it
\* began, and the file is as stale as before: the next run is not skipped
C29_Witness ==
    /\ Succeeded
    /\ hist.save_calls = 0
    /\ ~hist.force
    /\ hist.should_run
    /\ runs < MaxRuns
    /\ db_exists
    /\ db_age >= cache_hours
    /\ should_run(TRUE)

\* the indices of the placeholders the run has inserted so far
InsertedSoFar == (Len(hist.loaded) + 1)..Len(existing_amiibos)

\* the listing and the entry have the same non-empty normalized name
SameNormalizedName(scraped, amiibo) ==
    /\ normalized[scraped.name] # ""
    /\ normalized[scraped.name] = normalized[Get(amiibo, "name", "")]

\* the listing at idx has the normalized name of a listing handled before it
RepeatsEarlierListing ==
    /\ pc = "match"
    /\ \E j \in 1..(idx - 1) :
           /\ normalized[scraped_amiibos[j].name] # ""
           /\ normalized[scraped_amiibos[j].name] = normalized[scraped_amiibos[idx].name]

\* an inserted placeholder is a match for every listing of its normalized name,
\* at every threshold up to 1.0
InsertedIsCandidate ==
    \A i \in InsertedSoFar : \A k \in DOMAIN scraped_amiibos : \A t \in Thresholds :
        SameNormalizedName(scraped_amiibos[k], existing_amiibos[i])
            => best_upto(scraped_amiibos[k], existing_amiibos, Len(existing_amiibos), t)[1] # 0

\* no two placeholders of one run have the same non-empty normalized name
OnePlaceholderPerName ==
    \A i, j \in InsertedSoFar :
        (i < j /\ normalized[Get(existing_amiibos[i], "name", "")] # "")
            => normalized[Get(existing_amiibos[i], "name", "")]
                   # normalized[Get(existing_amiibos[j], "name", "")]

\* C30: a placeholder inserted during a run is a match candidate for the
\* listings handled later in the run: a listing with the non-empty normalized
\* name of an earlier listing is counted in matched and inserts nothing, so two
\* unmatched listings of one name leave one placeholder.
C30_RepeatedNameMatchesPlaceholder ==
    /\ [](InsertedIsCandidate /\ OnePlaceholderPerName)
    /\ [][RepeatsEarlierListing
            => /\ matched_count' = matched_count + 1
               /\ new_count' = new_count
               /\ Len(existing_amiibos') = Len(existing_amiibos)]_vars

\* a run on a page with 'Link' and 'LINK', neither in the file: one placeholder,
\* named as the first listing, new = 1 and matched = 1
C30_Witness ==
    /\ Succeeded
    /\ Len(scraped_amiibos) = 2
    /\ scraped_amiibos[1].name # scraped_amiibos[2].name
    /\ normalized[scraped_amiibos[1].name] = normalized[scraped_amiibos[2].name]
    /\ \A i \in DOMAIN hist.loaded : ~SameNormalizedName(scraped_amiibos[1], hist.loaded[i])
    /\ result.new = 1
    /\ result.matched = 1
    /\ Len(existing_amiibos) = Len(hist.loaded) + 1
    /\ existing_amiibos[Len(existing_amiibos)].name = scraped_amiibos[1].name

====
